---- MODULE Spec2Model ----
(***************************************************************************)
(* Log analysis and comparison services of preset-management:              *)
(*   services/log_analyzer.py, services/sast_log_analyzer.py,              *)
(*   services/dast_log_analyzer.py, services/log_comparator.py.            *)
(*                                                                         *)
(* A Python str is a sequence of one-character strings; a dict is a        *)
(* function whose DOMAIN is its key set; a list is a sequence; a set whose  *)
(* iteration order the code relies on is the sequence of its elements in   *)
(* that order.  Every run draws one input (Init) and then applies the      *)
(* services to it, one call per action, storing each result in `out`.      *)
(***************************************************************************)
EXTENDS Integers, Sequences, FiniteSets, TLC

VARIABLES task, input, out

vars == <<task, input, out>>

(***************************************************************************)
(* Python str primitives.                                                  *)
(***************************************************************************)

\* A TLA+ string literal as a Python str (sequence of characters).
S(str) == [i \in 1..Len(str) |-> SubSeq(str, i, i)]

Range(f) == {f[i] : i \in DOMAIN f}

Min(A) == CHOOSE x \in A : \A y \in A : x <= y

Max(A) == CHOOSE x \in A : \A y \in A : x >= y

\* The printable ASCII characters in code-point order: U+0020..U+005F, and
\* U+0061..U+007E (the grave accent U+0060 is not part of the modelled alphabet).
PrintableLow == S(" !\"#$%&'()*+,-./0123456789:;<=>?@ABCDEFGHIJKLMNOPQRSTUVWXYZ[\\]^_")

PrintableHigh == S("abcdefghijklmnopqrstuvwxyz{|}~")

\* ord(c)
OrdTable == [c \in Range(PrintableLow) \cup Range(PrintableHigh) \cup {"\t", "\n", "\r"} |->
               IF c = "\t" THEN 9
               ELSE IF c = "\n" THEN 10
               ELSE IF c = "\r" THEN 13
               ELSE IF c \in Range(PrintableLow)
                    THEN 31 + (CHOOSE i \in DOMAIN PrintableLow : PrintableLow[i] = c)
                    ELSE 96 + (CHOOSE i \in DOMAIN PrintableHigh : PrintableHigh[i] = c)]

Ord(c) == OrdTable[c]

Digits == Range(S("0123456789"))

UpperCase == Range(S("ABCDEFGHIJKLMNOPQRSTUVWXYZ"))

LowerCase == Range(S("abcdefghijklmnopqrstuvwxyz"))

\* regex \w on ASCII text
WordChars == Digits \cup UpperCase \cup LowerCase \cup {"_"}

\* regex \s on ASCII text
SpaceChars == {" ", "\t", "\n", "\r"}

\* regex [a-f0-9] under re.IGNORECASE
HexChars == Digits \cup Range(S("abcdefABCDEF"))

LowerTable == [c \in DOMAIN OrdTable |->
                 IF c \in UpperCase THEN PrintableHigh[Ord(c) + 32 - 96] ELSE c]

\* str.lower()
Lower(s) == [i \in 1..Len(s) |-> LowerTable[s[i]]]

\* s[i-1:] starts with lit (i is 1-based)
StartsAt(s, i, lit) ==
    /\ i >= 1
    /\ i + Len(lit) - 1 <= Len(s)
    /\ \A k \in 1..Len(lit) : s[i + k - 1] = lit[k]

\* the 1-based start positions of the occurrences of lit in s
Occurrences(s, lit) == {i \in 1..(Len(s) - Len(lit) + 1) : StartsAt(s, i, lit)}

\* lit in s
Contains(s, lit) == Occurrences(s, lit) # {}

\* s.replace(a, b) for single characters a, b
ReplaceChar(s, a, b) == [i \in 1..Len(s) |-> IF s[i] = a THEN b ELSE s[i]]

\* s[i-1:] (i is 1-based), empty when i is past the end
From(s, i) == SubSeq(s, i, Len(s))

RECURSIVE Concat(_)
\* ''.join(parts)
Concat(parts) == IF parts = <<>> THEN <<>> ELSE Head(parts) \o Concat(Tail(parts))

\* s.strip()
Strip(s) ==
    LET keep == {i \in 1..Len(s) : s[i] \notin SpaceChars}
    IN  IF keep = {} THEN <<>> ELSE SubSeq(s, Min(keep), Max(keep))

\* The position after the longest run of characters of class C that starts at
\* i: where a greedy C* (or C+) stops.
SpanEnd(s, i, C) ==
    IF i > Len(s) THEN i
    ELSE Min({j \in i..(Len(s) + 1) : j = Len(s) + 1 \/ s[j] \notin C})

\* The same for a negated class [^...].
SpanEndNot(s, i, C) ==
    IF i > Len(s) THEN i
    ELSE Min({j \in i..(Len(s) + 1) : j = Len(s) + 1 \/ s[j] \in C})

\* s matches, from i, a fixed-width pattern of digits and literals: in shape
\* the character d stands for \d, every other character for itself.
MatchShape(s, i, shape) ==
    /\ i >= 1
    /\ i + Len(shape) - 1 <= Len(s)
    /\ \A k \in 1..Len(shape) :
          IF shape[k] = "d" THEN s[i + k - 1] \in Digits ELSE s[i + k - 1] = shape[k]

\* Where (.*)$ ends when it starts at p: the end of the text, or the place
\* before a line break that is the text's last character.
DotEnd(s) == IF s # <<>> /\ s[Len(s)] = "\n" THEN Len(s) - 1 ELSE Len(s)

\* (.*)$ matches s from p
DotStarMatches(s, p) ==
    /\ p <= Len(s) + 1
    /\ \A k \in p..DotEnd(s) : s[k] # "\n"

RECURSIVE ParseInt(_)
\* int(s) for a run of decimal digits
ParseInt(s) ==
    IF s = <<>> THEN 0
    ELSE 10 * ParseInt(SubSeq(s, 1, Len(s) - 1)) + (Ord(s[Len(s)]) - Ord("0"))

RECURSIVE SplitRange(_, _, _, _)
\* The parts of s[lo..hi] between the occurrences of the character sep.  The
\* text is cut at an occurrence near its middle first, which keeps the
\* evaluation shallow on long texts; the parts are those a scan from the
\* left finds.
SplitRange(s, sep, lo, hi) ==
    LET at == {i \in lo..hi : s[i] = sep}
        right == {i \in at : 2 * i >= lo + hi}
        m == IF right # {} THEN Min(right) ELSE Max(at)
    IN  IF at = {} THEN <<SubSeq(s, lo, hi)>>
        ELSE SplitRange(s, sep, lo, m - 1) \o SplitRange(s, sep, m + 1, hi)

\* s.split(sep) for a single character sep
Split(s, sep) == SplitRange(s, sep, 1, Len(s))

RECURSIVE JoinRange(_, _, _, _)
\* sep.join(parts[lo..hi]), halving the range
JoinRange(parts, sep, lo, hi) ==
    IF lo > hi THEN <<>>
    ELSE IF lo = hi THEN parts[lo]
    ELSE LET mid == (lo + hi) \div 2
         IN  JoinRange(parts, sep, lo, mid) \o sep \o JoinRange(parts, sep, mid + 1, hi)

\* sep.join(parts)
Join(parts, sep) == JoinRange(parts, sep, 1, Len(parts))

\* xs[:n]
Take(xs, n) == SubSeq(xs, 1, IF Len(xs) < n THEN Len(xs) ELSE n)

\* Python's None, and a value that is not None
None == <<>>

Some(x) == <<x>>

\* d.get(k, default)
Get(d, k, default) == IF k \in DOMAIN d THEN d[k] ELSE default

\* d[k] = v
Put(f, k, v) == [x \in DOMAIN f \cup {k} |-> IF x = k THEN v ELSE f[x]]

\* {}
EmptyDict == [k \in {} |-> <<>>]

(***************************************************************************)
(* Path Normalizer: normalize_filepath.                                    *)
(***************************************************************************)

\* The offsets (0-based) of the dashes in the 8-4-4-4-12 shape, and its length.
UuidDashes == {8, 13, 18, 23}

UuidLen == 36

\* [a-f0-9]{8}-[a-f0-9]{4}-[a-f0-9]{4}-[a-f0-9]{4}-[a-f0-9]{12} matches s at i
UuidAt(s, i) ==
    /\ i >= 1
    /\ i + UuidLen - 1 <= Len(s)
    /\ \A k \in 0..(UuidLen - 1) :
          IF k \in UuidDashes THEN s[i + k] = "-" ELSE s[i + k] \in HexChars

\* (.+)$ matches s from p: a non-empty run without line break up to the end of
\* the text, or up to a line break that is the text's last character.
RestMatches(s, p) ==
    /\ p <= DotEnd(s)
    /\ \A k \in p..DotEnd(s) : s[k] # "\n"

\* The positions where group 1 of the pattern can start: right after a UUID
\* shape and a slash.  The lazy prefix .*? makes re.search take the least.
GroupStarts(path) ==
    {p \in (UuidLen + 2)..Len(path) :
        /\ path[p - 1] = "/"
        /\ UuidAt(path, p - 1 - UuidLen)
        /\ RestMatches(path, p)}

\* normalize_filepath with a greedy prefix (.* for .*?): the last UUID shape wins
normalize_filepath_greedy(filepath) ==
    LET path == ReplaceChar(filepath, "\\", "/")
        starts == GroupStarts(path)
    IN  IF starts # {}
        THEN SubSeq(path, Max(starts), DotEnd(path))
        ELSE path

\* normalize_filepath(filepath)
normalize_filepath(filepath) ==
    LET path == ReplaceChar(filepath, "\\", "/")
        starts == GroupStarts(path)
    IN  IF starts # {}
        THEN SubSeq(path, Min(starts), DotEnd(path))
        ELSE path

(***************************************************************************)
(* Line Parsers: parse_log_line, parse_sast_log_line, parse_dast_log_line. *)
(***************************************************************************)

RECURSIVE FoldRange(_, _, _, _, _)
\* for x in xs[lo..hi]: acc = Op(acc, x)  -- the applications are made in the
\* order of the loop; the range is halved and the value after its first half
\* is computed (left = left) before the second half is entered, so that the
\* evaluation stays shallow on long logs.
FoldRange(Op(_, _), acc, xs, lo, hi) ==
    IF lo > hi THEN acc
    ELSE IF lo = hi THEN Op(acc, xs[lo])
    ELSE LET mid == (lo + hi) \div 2
             left == FoldRange(Op, acc, xs, lo, mid)
         IN  IF left = left THEN FoldRange(Op, left, xs, mid + 1, hi) ELSE acc

\* for x in xs: acc = Op(acc, x)
FoldLeft(Op(_, _), acc, xs) == FoldRange(Op, acc, xs, 1, Len(xs))

\* \d{2}/\d{2}/\d{4} \d{2}:\d{2}:\d{2},\d{3}
EngineStamp == S("dd/dd/dddd dd:dd:dd,ddd")

\* \d{4}-\d{2}-\d{2} \d{2}:\d{2}:\d{2},\d{3}
DastStamp == S("dddd-dd-dd dd:dd:dd,ddd")

\* The match of the engine line pattern
\*   ^(stamp) \[([^\]]+)\] (\w+)\s+Available memory: (\d+) Used memory: (\d+)
\*    Elapsed Time: ([\d:.]+) \[([^\]]+)\] - (.*)$
\* on line, as the positions of its groups; no run of the pattern can stop
\* short of its longest extent, since what follows each run is outside its class.
EngineMatch(line) ==
    LET t0 == Len(EngineStamp) + 3
        t1 == SpanEndNot(line, t0, {"]"})
        l0 == t1 + 2
        l1 == SpanEnd(line, l0, WordChars)
        a0 == SpanEnd(line, l1, SpaceChars) + Len(S("Available memory: "))
        a1 == SpanEnd(line, a0, Digits)
        u0 == a1 + Len(S(" Used memory: "))
        u1 == SpanEnd(line, u0, Digits)
        e0 == u1 + Len(S(" Elapsed Time: "))
        e1 == SpanEnd(line, e0, Digits \cup {":", "."})
        p0 == e1 + 2
        p1 == SpanEndNot(line, p0, {"]"})
        m0 == p1 + Len(S("] - "))
    IN  [ok |-> /\ MatchShape(line, 1, EngineStamp)
                /\ StartsAt(line, t0 - 2, S(" ["))
                /\ t1 > t0
                /\ StartsAt(line, t1, S("] "))
                /\ l1 > l0
                /\ a0 - Len(S("Available memory: ")) > l1
                /\ StartsAt(line, a0 - Len(S("Available memory: ")), S("Available memory: "))
                /\ a1 > a0
                /\ StartsAt(line, a1, S(" Used memory: "))
                /\ u1 > u0
                /\ StartsAt(line, u1, S(" Elapsed Time: "))
                /\ e1 > e0
                /\ StartsAt(line, e1, S(" ["))
                /\ p1 > p0
                /\ StartsAt(line, p1, S("] - "))
                /\ DotStarMatches(line, m0),
         thread |-> <<t0, t1>>, level |-> <<l0, l1>>, available |-> <<a0, a1>>,
         used |-> <<u0, u1>>, elapsed |-> <<e0, e1>>, phase |-> <<p0, p1>>,
         message |-> <<m0, DotEnd(line) + 1>>]

\* match.group(n): the text between the two positions of a group
Group(line, span) == SubSeq(line, span[1], span[2] - 1)

\* parse_log_line(line): None, or the line's components
parse_log_line(line) ==
    LET groups(m) ==
            IF m.ok
            THEN Some([timestamp |-> SubSeq(line, 1, Len(EngineStamp)),
                       thread |-> Group(line, m.thread),
                       level |-> Group(line, m.level),
                       available_memory |-> ParseInt(Group(line, m.available)),
                       used_memory |-> ParseInt(Group(line, m.used)),
                       elapsed_time |-> Group(line, m.elapsed),
                       phase |-> Group(line, m.phase),
                       message |-> Strip(Group(line, m.message))])
            ELSE None
    IN  groups(EngineMatch(line))

\* parse_sast_log_line(line): the same pattern, the thread stripped
parse_sast_log_line(line) ==
    LET groups(m) ==
            IF m.ok
            THEN Some([timestamp |-> SubSeq(line, 1, Len(EngineStamp)),
                       thread |-> Strip(Group(line, m.thread)),
                       level |-> Group(line, m.level),
                       available_memory |-> ParseInt(Group(line, m.available)),
                       used_memory |-> ParseInt(Group(line, m.used)),
                       elapsed_time |-> Group(line, m.elapsed),
                       phase |-> Group(line, m.phase),
                       message |-> Strip(Group(line, m.message))])
            ELSE None
    IN  groups(EngineMatch(line))

\* parse_dast_log_line(line): the pattern
\*   ^(stamp) \[([^\]]+)\] (\w+)\s+(\S+) - (.*)$
parse_dast_log_line(line) ==
    LET t0 == Len(DastStamp) + 3
        t1 == SpanEndNot(line, t0, {"]"})
        l0 == t1 + 2
        l1 == SpanEnd(line, l0, WordChars)
        c0 == SpanEnd(line, l1, SpaceChars)
        c1 == SpanEndNot(line, c0, SpaceChars)
        m0 == c1 + Len(S(" - "))
    IN  IF /\ MatchShape(line, 1, DastStamp)
           /\ StartsAt(line, t0 - 2, S(" ["))
           /\ t1 > t0
           /\ StartsAt(line, t1, S("] "))
           /\ l1 > l0
           /\ c0 > l1
           /\ c1 > c0
           /\ StartsAt(line, c1, S(" - "))
           /\ DotStarMatches(line, m0)
        THEN Some([timestamp |-> SubSeq(line, 1, Len(DastStamp)),
                   thread |-> Strip(SubSeq(line, t0, t1 - 1)),
                   level |-> SubSeq(line, l0, l1 - 1),
                   class |-> SubSeq(line, c0, c1 - 1),
                   message |-> Strip(SubSeq(line, m0, DotEnd(line)))])
        ELSE None

(***************************************************************************)
(* Source-engine analyzer: services/log_analyzer.py.                       *)
(***************************************************************************)

\* The match of  Language: (\w+), PackageTypeName: (\w+), GroupName: ([\w_]+),
\* QueryName: ([\w_]+)  that starts at i, as [ok, language, package, group, query].
QueryTagAt(message, i) ==
    LET l0 == i + Len(S("Language: "))
        l1 == SpanEnd(message, l0, WordChars)
        p0 == l1 + Len(S(", PackageTypeName: "))
        p1 == SpanEnd(message, p0, WordChars)
        g0 == p1 + Len(S(", GroupName: "))
        g1 == SpanEnd(message, g0, WordChars)
        q0 == g1 + Len(S(", QueryName: "))
        q1 == SpanEnd(message, q0, WordChars)
    IN  [ok |-> /\ StartsAt(message, i, S("Language: "))
                /\ l1 > l0
                /\ StartsAt(message, l1, S(", PackageTypeName: "))
                /\ p1 > p0
                /\ StartsAt(message, p1, S(", GroupName: "))
                /\ g1 > g0
                /\ StartsAt(message, g1, S(", QueryName: "))
                /\ q1 > q0,
         language |-> SubSeq(message, l0, l1 - 1),
         package |-> SubSeq(message, p0, p1 - 1),
         group |-> SubSeq(message, g0, g1 - 1),
         query |-> SubSeq(message, q0, q1 - 1)]

\* parse_query_info(message): None, or the query's language, package, group
\* and query name
parse_query_info(message) ==
    LET tags == {i \in Occurrences(message, S("Language: ")) : QueryTagAt(message, i).ok}
        begin == S("Begin running query ")
        begins == {i \in Occurrences(message, begin) :
                     SpanEnd(message, i + Len(begin), WordChars \cup {"."}) > i + Len(begin)}
        tagged(m) == Some([language |-> m.language, package |-> m.package,
                           group |-> m.group, query |-> m.query])
        dotted(parts) ==
            IF Len(parts) >= 4
            THEN Some([language |-> parts[1], package |-> parts[2],
                       group |-> parts[3], query |-> parts[4]])
            ELSE None
        begun(b0) ==
            dotted(Split(SubSeq(message, b0,
                                SpanEnd(message, b0, WordChars \cup {"."}) - 1), "."))
        found(first_tags, first_begins) ==
            IF first_tags # {} THEN tagged(QueryTagAt(message, Min(first_tags)))
            ELSE IF first_begins # {} THEN begun(Min(first_begins) + Len(begin))
            ELSE None
    IN  found(tags, begins)

\* line.split(marker)[1].strip()
AfterMarker(line, marker) ==
    LET rest == From(line, Min(Occurrences(line, marker)) + Len(marker))
        next == Occurrences(rest, marker)
    IN  Strip(IF next = {} THEN rest ELSE SubSeq(rest, 1, Min(next) - 1))

\* lines[:50]
HeaderLines == 50

\* The body of the loop over the first lines in extract_scan_info.
scan_header_step(scan_info, line) ==
    LET s1 == IF Contains(line, S("Product version:"))
              THEN Put(scan_info, "version", AfterMarker(line, S("Product version:")))
              ELSE scan_info
        s2 == IF Contains(line, S("HostName:"))
              THEN Put(s1, "hostname", AfterMarker(line, S("HostName:")))
              ELSE s1
        s3 == IF Contains(line, S("Processor Count:"))
              THEN Put(s2, "processors", AfterMarker(line, S("Processor Count:")))
              ELSE s2
    IN  IF Contains(line, S("OS:")) /\ StartsAt(Strip(line), 1, S("OS:"))
        THEN Put(s3, "os", AfterMarker(line, S("OS:")))
        ELSE s3

\* re.search(r'number of files changed:\s*(\d+)', line): None, or the number
FilesChangedCount(line) ==
    LET lit == S("number of files changed:")
        d0(i) == SpanEnd(line, i + Len(lit), SpaceChars)
        at == {i \in Occurrences(line, lit) : SpanEnd(line, d0(i), Digits) > d0(i)}
    IN  IF at = {} THEN None
        ELSE Some(ParseInt(SubSeq(line, d0(Min(at)),
                                  SpanEnd(line, d0(Min(at)), Digits) - 1)))

\* A loop body that keeps the first count found: a later report is dropped
\* once incremental_files_changed is set.
scan_incremental_step_first(scan_info, line) ==
    LET s1 == IF Contains(line, S("in Incremental Scan State"))
              THEN Put(scan_info, "is_incremental", TRUE)
              ELSE scan_info
        count == FilesChangedCount(line)
    IN  IF /\ Contains(line, S("Incremental Scan: number of files changed:"))
           /\ count # None
           /\ scan_info.incremental_files_changed = None
        THEN LET s2 == Put(s1, "incremental_files_changed", count)
             IN  IF count = Some(0) THEN Put(s2, "incremental_skipped", TRUE) ELSE s2
        ELSE s1

\* The body of the loop over the whole log in extract_scan_info.  The field
\* incremental_files_changed holds None or Some(count).
scan_incremental_step(scan_info, line) ==
    LET s1 == IF Contains(line, S("in Incremental Scan State"))
              THEN Put(scan_info, "is_incremental", TRUE)
              ELSE scan_info
        count == FilesChangedCount(line)
    IN  IF Contains(line, S("Incremental Scan: number of files changed:")) /\ count # None
        THEN LET s2 == Put(s1, "incremental_files_changed", count)
             IN  IF count = Some(0) THEN Put(s2, "incremental_skipped", TRUE) ELSE s2
        ELSE s1

\* extract_scan_info(lines)
extract_scan_info(lines) ==
    LET header == FoldLeft(scan_header_step, EmptyDict, Take(lines, HeaderLines))
        start == Put(Put(Put(header, "is_incremental", FALSE),
                         "incremental_files_changed", None),
                     "incremental_skipped", FALSE)
    IN  FoldLeft(scan_incremental_step, start, lines)

\* re.search(r'file: (.+)$', message): None, or group 1
FileOfMessage(message) ==
    LET lit == S("file: ")
        at == {i \in Occurrences(message, lit) : RestMatches(message, i + Len(lit))}
    IN  IF at = {} THEN None
        ELSE Some(SubSeq(message, Min(at) + Len(lit), DotEnd(message)))

\* analyze_log_step with an error line counted as a warning as well
analyze_log_step_both(acc, line) ==
    LET record(r) ==
            [acc EXCEPT !.parsed_lines = Append(@, r),
                        !.errors = IF r.level = S("ERROR") THEN Append(@, r) ELSE @,
                        !.warnings = IF r.level \in {S("ERROR"), S("WARN")}
                                     THEN Append(@, r) ELSE @]
        step(parsed) == IF parsed = None THEN acc ELSE record(parsed[1])
    IN  step(parse_log_line(line))

\* The body of the loop of analyze_log; files_processed is the set.
analyze_log_step(acc, line) ==
    LET with_query(queries_run, query_info) ==
            IF query_info # None THEN Append(queries_run, query_info[1]) ELSE queries_run
        with_file(files_processed, file_match) ==
            IF file_match # None
            THEN files_processed \cup {normalize_filepath(Strip(file_match[1]))}
            ELSE files_processed
        record(r) ==
            [parsed_lines |-> Append(acc.parsed_lines, r),
             phases |-> Put(acc.phases, r.phase, Get(acc.phases, r.phase, 0) + 1),
             memory_timeline |->
                 Append(acc.memory_timeline,
                        [elapsed |-> r.elapsed_time, used |-> r.used_memory,
                         available |-> r.available_memory]),
             errors |-> IF r.level = S("ERROR") THEN Append(acc.errors, r) ELSE acc.errors,
             warnings |-> IF r.level # S("ERROR") /\ r.level = S("WARN")
                          THEN Append(acc.warnings, r) ELSE acc.warnings,
             queries_run |->
                 IF /\ r.phase = S("Queries")
                    /\ Contains(r.message, S("Finish running query"))
                 THEN with_query(acc.queries_run, parse_query_info(r.message))
                 ELSE acc.queries_run,
             files_processed |->
                 IF Contains(r.message, S("Finished processing file"))
                 THEN with_file(acc.files_processed, FileOfMessage(r.message))
                 ELSE acc.files_processed]
        step(parsed) == IF parsed = None THEN acc ELSE record(parsed[1])
    IN  step(parse_log_line(line))

\* The orders in which a set can be iterated: list(a_set).
ListsOf(set) ==
    {l \in [1..Cardinality(set) -> set] : \A x \in set : \E i \in DOMAIN l : l[i] = x}

\* The lists, the set and the dict analyze_log starts its loop with.
analyze_log_start ==
    [parsed_lines |-> <<>>, errors |-> <<>>, warnings |-> <<>>,
     queries_run |-> <<>>, files_processed |-> {},
     phases |-> EmptyDict, memory_timeline |-> <<>>]

\* The loop of analyze_log over the lines.
analyze_log_loop(lines) == FoldLeft(analyze_log_step, analyze_log_start, lines)

\* The dict analyze_log returns after its loop over the lines left acc, where
\* files is the list that list(files_processed) makes of the set: its
\* elements in the order the set iterates.
analyze_log_result(lines, acc, files) ==
    [total_lines |-> Len(lines),
     parsed_lines |-> Len(acc.parsed_lines),
     errors |-> acc.errors,
     warnings |-> acc.warnings,
     queries_run |-> acc.queries_run,
     files_processed |-> files,
     phases |-> acc.phases,
     memory_timeline |-> acc.memory_timeline,
     scan_info |-> extract_scan_info(lines)]

\* analyze_log(content), with files as in analyze_log_result
analyze_log(content, files) ==
    LET analysis(lines) == analyze_log_result(lines, analyze_log_loop(lines), files)
    IN  analysis(Split(content, "\n"))

(***************************************************************************)
(* SAST analyzer: services/sast_log_analyzer.py.                           *)
(***************************************************************************)

\* lines[:500]
SastHeaderLines == 500

\* re.search(lit + r'(.+)', text): None, or group 1, the rest of the line
\* after the first occurrence of lit that has one
RestOfLineAfter(text, lit) ==
    LET at == {i \in Occurrences(text, lit) :
                 /\ i + Len(lit) <= Len(text)
                 /\ text[i + Len(lit)] # "\n"}
        g0 == Min(at) + Len(lit)
    IN  IF at = {} THEN None
        ELSE Some(SubSeq(text, g0, SpanEndNot(text, g0, {"\n"}) - 1))

\* re.search(lit + r'(\d+)' + after, text): None, or group 1 as a text
DigitsAfter(text, lit, after) ==
    LET d1(i) == SpanEnd(text, i + Len(lit), Digits)
        at == {i \in Occurrences(text, lit) :
                 d1(i) > i + Len(lit) /\ StartsAt(text, d1(i), after)}
    IN  IF at = {} THEN None
        ELSE Some(SubSeq(text, Min(at) + Len(lit), d1(Min(at)) - 1))

\* if match: scan_info[key] = match.group(1).strip()
PutStripped(scan_info, key, match) ==
    IF match = None THEN scan_info ELSE Put(scan_info, key, Strip(match[1]))

\* re.search(r"ProjectId='(\d+)',ProjectName='([^']+)'", text): None, or the
\* two groups
ProjectMatch(text) ==
    LET lit == S("ProjectId='")
        mid == S("',ProjectName='")
        d1(i) == SpanEnd(text, i + Len(lit), Digits)
        n0(i) == d1(i) + Len(mid)
        n1(i) == SpanEndNot(text, n0(i), {"'"})
        at == {i \in Occurrences(text, lit) :
                 /\ d1(i) > i + Len(lit)
                 /\ StartsAt(text, d1(i), mid)
                 /\ n1(i) > n0(i)
                 /\ StartsAt(text, n1(i), S("'"))}
        i0 == Min(at)
    IN  IF at = {} THEN None
        ELSE Some([project_id |-> SubSeq(text, i0 + Len(lit), d1(i0) - 1),
                   project_name |-> SubSeq(text, n0(i0), n1(i0) - 1)])

\* re.search(r'Product: Checkmarx SAST Engine\s*-\s*Main Version: ([\d.]+)', text)
SastVersionMatch(text) ==
    LET lit == S("Product: Checkmarx SAST Engine")
        main == S("Main Version: ")
        dash(i) == SpanEnd(text, i + Len(lit), SpaceChars)
        m0(i) == SpanEnd(text, dash(i) + 1, SpaceChars)
        v0(i) == m0(i) + Len(main)
        v1(i) == SpanEnd(text, v0(i), Digits \cup {"."})
        at == {i \in Occurrences(text, lit) :
                 /\ StartsAt(text, dash(i), S("-"))
                 /\ StartsAt(text, m0(i), main)
                 /\ v1(i) > v0(i)}
    IN  IF at = {} THEN None
        ELSE Some(SubSeq(text, v0(Min(at)), v1(Min(at)) - 1))

\* The header part of extract_sast_scan_info, on the joined first lines.
sast_header_info(full_text) ==
    LET put_int(d, key, m) == IF m = None THEN d ELSE Put(d, key, ParseInt(m[1]))
        put_platform(d) ==
            IF Contains(full_text, S("64Bit platform")) THEN Put(d, "platform", S("64-bit"))
            ELSE IF Contains(full_text, S("32Bit platform")) THEN Put(d, "platform", S("32-bit"))
            ELSE d
        put_project(d, proj) ==
            IF proj = None THEN d
            ELSE Put(Put(d, "project_id", proj[1].project_id),
                     "project_name", proj[1].project_name)
        put_group(d, key, m) == IF m = None THEN d ELSE Put(d, key, m[1])
        machine ==
            PutStripped(
                PutStripped(
                    PutStripped(
                        put_int(PutStripped(EmptyDict, "version",
                                            RestOfLineAfter(full_text, S("Product version: "))),
                                "available_memory_mb",
                                DigitsAfter(full_text, S("Available memory: "), S("Mb"))),
                        "os", RestOfLineAfter(full_text, S("OS: "))),
                    "hostname", RestOfLineAfter(full_text, S("HostName: "))),
                "fqdn", RestOfLineAfter(full_text, S("FQDN: ")))
        runtime ==
            PutStripped(
                put_platform(put_int(machine, "processors",
                                     DigitsAfter(full_text, S("Processor Count: "), <<>>))),
                "clr_version", RestOfLineAfter(full_text, S("CLR Version: ")))
    IN  put_group(put_project(runtime, ProjectMatch(full_text)),
                  "sast_version", SastVersionMatch(full_text))

\* re.search(r'(\d+)\s*changed files', line, re.IGNORECASE): None, or the number
ChangedFilesCount(line) ==
    LET d1(i) == SpanEnd(line, i, Digits)
        at == {i \in 1..Len(line) :
                 /\ line[i] \in Digits
                 /\ StartsAt(Lower(line), SpanEnd(line, d1(i), SpaceChars), S("changed files"))}
    IN  IF at = {} THEN None
        ELSE Some(ParseInt(SubSeq(line, Min(at), d1(Min(at)) - 1)))

\* scan_info after a files-changed count was found on a line
with_files_changed(scan_info, count) ==
    LET s1 == Put(Put(scan_info, "incremental_files_changed", count), "is_incremental", TRUE)
    IN  IF count = Some(0) THEN Put(s1, "incremental_skipped", TRUE) ELSE s1

\* The body of the loop over the whole log in extract_sast_scan_info.
sast_incremental_step(scan_info, line) ==
    LET count == FilesChangedCount(line)
        s1 == IF Contains(line, S("Incremental Scan: number of files changed:")) /\ count # None
              THEN with_files_changed(scan_info, count)
              ELSE scan_info
        other == ChangedFilesCount(line)
    IN  IF /\ Contains(Lower(line), S("changed files"))
           /\ Contains(Lower(line), S("incremental"))
           /\ other # None
        THEN with_files_changed(s1, other)
        ELSE s1

\* extract_sast_scan_info(lines)
extract_sast_scan_info(lines) ==
    LET header == sast_header_info(Join(Take(lines, SastHeaderLines), S("\n")))
        full_log == Join(lines, S("\n"))
        start == Put(Put(Put(header, "is_incremental",
                             \/ Contains(full_log, S("in Incremental Scan State"))
                             \/ /\ Contains(full_log, S("Starting regular scan"))
                                /\ Contains(full_log, S("IncrementalFiles.cx exists:True"))),
                         "incremental_files_changed", None),
                     "incremental_skipped", FALSE)
    IN  FoldLeft(sast_incremental_step, start, lines)

\* The least start, from position `from` on, of a match of (\w+)=(\d+) in
\* line, or 0: a run of word characters up to an equals sign and a digit.
LangCountAt(line, from) ==
    LET w1(i) == SpanEnd(line, i, WordChars)
        at == {i \in from..Len(line) :
                 /\ line[i] \in WordChars
                 /\ StartsAt(line, w1(i), S("="))
                 /\ SpanEnd(line, w1(i) + 1, Digits) > w1(i) + 1}
    IN  IF at = {} THEN 0 ELSE Min(at)

RECURSIVE PutLangCounts(_, _, _)
\* for lang, count in re.findall(r'(\w+)=(\d+)', line): languages[lang] = int(count)
PutLangCounts(languages, line, from) ==
    LET i == LangCountAt(line, from)
        w1 == SpanEnd(line, i, WordChars)
        d1 == SpanEnd(line, w1 + 1, Digits)
    IN  IF i = 0 THEN languages
        ELSE PutLangCounts(Put(languages, SubSeq(line, i, w1 - 1),
                               ParseInt(SubSeq(line, w1 + 1, d1 - 1))),
                           line, d1)

\* re.search(r'(\d+) lines of code', line): None, or the digits
LinesOfCodeMatch(line) ==
    LET d1(i) == SpanEnd(line, i, Digits)
        at == {i \in 1..Len(line) :
                 line[i] \in Digits /\ StartsAt(line, d1(i), S(" lines of code"))}
    IN  IF at = {} THEN None ELSE Some(SubSeq(line, Min(at), d1(Min(at)) - 1))

\* The body of the loop of extract_languages.
extract_languages_step(acc, line) ==
    LET loc == LinesOfCodeMatch(line)
        scanned == DigitsAfter(line, S("Actually scanned lines of code: "), <<>>)
    IN  [languages |->
             IF \/ Contains(line, S("Languages that will be scanned:"))
                \/ Contains(line, S("source files were identified:"))
             THEN PutLangCounts(acc.languages, line, 1) ELSE acc.languages,
         total_loc |->
             IF Contains(Lower(line), S("lines of code")) /\ loc # None
             THEN ParseInt(loc[1]) ELSE acc.total_loc,
         scanned_loc |->
             IF Contains(line, S("Actually scanned lines of code:")) /\ scanned # None
             THEN ParseInt(scanned[1]) ELSE acc.scanned_loc]

\* extract_languages(lines)
extract_languages(lines) ==
    FoldLeft(extract_languages_step,
             [languages |-> EmptyDict, total_loc |-> 0, scanned_loc |-> 0], lines)

\* line[:23] if len(line) > 23 else ''
StampLen == 23

PhaseStamp(line) == IF Len(line) > StampLen THEN SubSeq(line, 1, StampLen) ELSE <<>>

\* The body of the loop of extract_phases.
extract_phases_step(phases, line) ==
    LET start == RestOfLineAfter(line, S("Engine Phase (Start): "))
        end == RestOfLineAfter(line, S("Engine Phase ( End ): "))
    IN  IF Contains(line, S("Engine Phase (Start):"))
        THEN IF start # None
             THEN Append(phases, [name |-> Strip(start[1]), type |-> S("start"),
                                  timestamp |-> PhaseStamp(line)])
             ELSE phases
        ELSE IF Contains(line, S("Engine Phase ( End ):")) /\ end # None
        THEN Append(phases, [name |-> Strip(end[1]), type |-> S("end"),
                             timestamp |-> PhaseStamp(line)])
        ELSE phases

\* extract_phases(lines)
extract_phases(lines) == FoldLeft(extract_phases_step, <<>>, lines)

\* success|failure|error
QueryStatuses == {S("success"), S("failure"), S("error")}

\* re.match(r'^(\w+)\.([^\s]+)\s+(success|failure|error)\s+(\d+)\s+([\d:.]+)', text):
\* None, or the query record
QueryLineMatch(text) ==
    LET l1 == SpanEnd(text, 1, WordChars)
        n0 == l1 + 1
        n1 == SpanEndNot(text, n0, SpaceChars)
        s0 == SpanEnd(text, n1, SpaceChars)
        status == {st \in QueryStatuses : StartsAt(text, s0, st)}
        s1 == s0 + Len(CHOOSE st \in status : TRUE)
        r0 == SpanEnd(text, s1, SpaceChars)
        r1 == SpanEnd(text, r0, Digits)
        d0 == SpanEnd(text, r1, SpaceChars)
        d1 == SpanEnd(text, d0, Digits \cup {":", "."})
    IN  IF /\ l1 > 1
           /\ StartsAt(text, l1, S("."))
           /\ n1 > n0
           /\ s0 > n1
           /\ status # {}
           /\ r0 > s1
           /\ r1 > r0
           /\ d0 > r1
           /\ d1 > d0
        THEN Some([language |-> SubSeq(text, 1, l1 - 1),
                   name |-> SubSeq(text, n0, n1 - 1),
                   status |-> SubSeq(text, s0, s1 - 1),
                   results |-> ParseInt(SubSeq(text, r0, r1 - 1)),
                   duration |-> SubSeq(text, d0, d1 - 1)])
        ELSE None

\* extract_queries_step with a section that the end marker does not close
extract_queries_step_open(acc, line) ==
    LET matched(m) ==
            IF m # None THEN [acc EXCEPT !.queries = Append(@, m[1])] ELSE acc
    IN  IF Contains(line, S("General Queries Summary"))
        THEN [acc EXCEPT !.in_queries_section = TRUE]
        ELSE IF acc.in_queries_section /\ Strip(line) # <<>>
        THEN matched(QueryLineMatch(Strip(line)))
        ELSE acc

\* The body of the loop of extract_queries.
extract_queries_step(acc, line) ==
    LET m == QueryLineMatch(Strip(line))
    IN  IF /\ Contains(line, S("General Queries Summary"))
           /\ ~Contains(line, S("End General Queries Summary"))
        THEN [acc EXCEPT !.in_queries_section = TRUE]
        ELSE IF Contains(line, S("End General Queries Summary"))
        THEN [acc EXCEPT !.in_queries_section = FALSE]
        ELSE IF acc.in_queries_section /\ Strip(line) # <<>> /\ m # None
        THEN [acc EXCEPT !.queries = Append(@, m[1])]
        ELSE acc

\* extract_queries(lines)
extract_queries(lines) ==
    FoldLeft(extract_queries_step,
             [queries |-> <<>>, in_queries_section |-> FALSE], lines).queries

\* re.search(lit + r'\s*(.+?)(?:\s*$)', line).group(1).strip() for a line
\* without line break: None when nothing follows the first occurrence of lit,
\* else what follows it, stripped
PathAfter(line, lit) ==
    LET at == Occurrences(line, lit)
    IN  IF at = {} \/ Min(at) + Len(lit) > Len(line) THEN None
        ELSE Some(Strip(From(line, Min(at) + Len(lit))))

\* A loop body that adds each path as the line gives it, not normalized.
extract_files_step_raw(files, line) ==
    LET started == PathAfter(line, S("Started processing file:"))
        finished == PathAfter(line, S("Finished processing file:"))
    IN  IF Contains(line, S("Started processing file:"))
        THEN IF started # None /\ started # Some(<<>>)
             THEN files \cup {started[1]} ELSE files
        ELSE IF /\ Contains(line, S("Finished processing file:"))
                /\ finished # None /\ finished # Some(<<>>)
        THEN files \cup {finished[1]}
        ELSE files

\* The body of the loop of extract_files_processed; files is the set.
extract_files_step(files, line) ==
    LET started == PathAfter(line, S("Started processing file:"))
        finished == PathAfter(line, S("Finished processing file:"))
    IN  IF Contains(line, S("Started processing file:"))
        THEN IF started # None /\ started # Some(<<>>)
             THEN files \cup {normalize_filepath(started[1])} ELSE files
        ELSE IF /\ Contains(line, S("Finished processing file:"))
                /\ finished # None /\ finished # Some(<<>>)
        THEN files \cup {normalize_filepath(finished[1])}
        ELSE files

\* The set that extract_files_processed(lines) builds.
extract_files_processed(lines) == FoldLeft(extract_files_step, {}, lines)

\* The body of the loop of extract_errors_warnings.
extract_errors_warnings_step(acc, line) ==
    LET record(r) ==
            IF r.level = S("ERROR") THEN [acc EXCEPT !.errors = Append(@, r)]
            ELSE IF r.level = S("WARN") THEN [acc EXCEPT !.warnings = Append(@, r)]
            ELSE acc
        step(parsed) == IF parsed = None THEN acc ELSE record(parsed[1])
    IN  step(parse_sast_log_line(line))

\* extract_errors_warnings(lines)
extract_errors_warnings(lines) ==
    FoldLeft(extract_errors_warnings_step, [errors |-> <<>>, warnings |-> <<>>], lines)

\* The body of the loop of extract_memory_timeline.
extract_memory_timeline_step(timeline, line) ==
    LET record(r) ==
            Append(timeline, [elapsed_time |-> r.elapsed_time,
                              available_memory |-> r.available_memory,
                              used_memory |-> r.used_memory])
        step(parsed) == IF parsed = None THEN timeline ELSE record(parsed[1])
    IN  step(parse_sast_log_line(line))

\* extract_memory_timeline(lines)
extract_memory_timeline(lines) == FoldLeft(extract_memory_timeline_step, <<>>, lines)

\* get_total_elapsed_time(lines) of the SAST analyzer: the elapsed time of
\* the first line, going backwards from the end, that parses
sast_total_elapsed_time(lines) ==
    LET parsed == {i \in DOMAIN lines : parse_sast_log_line(lines[i]) # None}
    IN  IF parsed = {} THEN S("00:00:00")
        ELSE parse_sast_log_line(lines[Max(parsed)])[1].elapsed_time

\* get_peak_memory(memory_timeline) of the SAST analyzer
sast_peak_memory(memory_timeline) ==
    IF memory_timeline = <<>> THEN 0
    ELSE Max({memory_timeline[i].used_memory : i \in DOMAIN memory_timeline})

RECURSIVE Tokens(_, _)
\* s.split(): the runs of non-space characters, from position `from` on
Tokens(s, from) ==
    LET t0 == SpanEnd(s, from, SpaceChars)
        t1 == SpanEndNot(s, t0, SpaceChars)
    IN  IF t0 > Len(s) THEN <<>> ELSE <<SubSeq(s, t0, t1 - 1)>> \o Tokens(s, t1)

RECURSIVE DigitGroups(_)
\* s is digits with single underscores between them: \d+(_\d+)*
DigitGroups(s) ==
    LET d1 == SpanEnd(s, 1, Digits)
    IN  /\ d1 > 1
        /\ \/ d1 = Len(s) + 1
           \/ s[d1] = "_" /\ DigitGroups(From(s, d1 + 1))

\* int(s) for a token s: None when it raises ValueError, else Some(value); a
\* sign may lead and underscores may separate digits.
PyInt(s) ==
    LET signed == s # <<>> /\ s[1] \in {"+", "-"}
        body == IF signed THEN Tail(s) ELSE s
        value == ParseInt(SelectSeq(body, LAMBDA c : c # "_"))
    IN  IF ~DigitGroups(body) THEN None
        ELSE Some(IF signed /\ s[1] = "-" THEN 0 - value ELSE value)

\* A loop body that takes the time of a totals line before it reads the count,
\* and so keeps the time of a line whose count is no integer.
extract_query_totals_step_partial(totals, line) ==
    LET parts == Tokens(line, 1)
    IN  IF StartsAt(Strip(line), 1, S("Total:")) /\ Len(parts) >= 3
        THEN [total_results |-> IF PyInt(parts[2]) # None THEN PyInt(parts[2])[1]
                                ELSE totals.total_results,
              total_query_time |-> parts[3]]
        ELSE totals

\* The body of the loop of extract_query_totals.
extract_query_totals_step(totals, line) ==
    LET parts == Tokens(line, 1)
    IN  IF /\ StartsAt(Strip(line), 1, S("Total:"))
           /\ Len(parts) >= 3
           /\ PyInt(parts[2]) # None
        THEN [total_results |-> PyInt(parts[2])[1], total_query_time |-> parts[3]]
        ELSE totals

\* extract_query_totals(lines)
extract_query_totals(lines) ==
    FoldLeft(extract_query_totals_step,
             [total_results |-> 0, total_query_time |-> S("00:00:00")], lines)

\* The body of the loop that groups the queries by language.
by_language_step(by_language, q) ==
    Put(by_language, q.language, Append(Get(by_language, q.language, <<>>), q))

\* analyze_sast_log(content), where files is the list that
\* extract_files_processed makes of its set
analyze_sast_log(content, files) ==
    LET count(queries, succeeded) ==
            Cardinality({i \in DOMAIN queries :
                           (queries[i].status = S("success")) = succeeded})
        result(lines, language_info, queries, found, memory_timeline) ==
            [total_lines |-> Len(lines),
             scan_info |-> extract_sast_scan_info(lines),
             languages |-> language_info.languages,
             total_loc |-> language_info.total_loc,
             scanned_loc |-> language_info.scanned_loc,
             phases |-> extract_phases(lines),
             queries |-> queries,
             queries_by_language |-> FoldLeft(by_language_step, EmptyDict, queries),
             successful_queries |-> count(queries, TRUE),
             failed_queries |-> count(queries, FALSE),
             query_totals |-> extract_query_totals(lines),
             files_processed |-> files,
             errors |-> found.errors,
             warnings |-> found.warnings,
             memory_timeline |-> memory_timeline,
             peak_memory |-> sast_peak_memory(memory_timeline),
             total_elapsed_time |-> sast_total_elapsed_time(lines)]
        analysis(lines) ==
            result(lines, extract_languages(lines), extract_queries(lines),
                   extract_errors_warnings(lines), extract_memory_timeline(lines))
    IN  analysis(Split(content, "\n"))

(***************************************************************************)
(* DAST analyzer: services/dast_log_analyzer.py.                           *)
(***************************************************************************)

\* re.search(lit + r'(\S+)' + after, line): None, or group 1 of the first match
WordAfter(line, lit, after) ==
    LET n1(i) == SpanEndNot(line, i + Len(lit), SpaceChars)
        at == {i \in Occurrences(line, lit) :
                 n1(i) > i + Len(lit) /\ StartsAt(line, n1(i), after)}
    IN  IF at = {} THEN None
        ELSE Some(SubSeq(line, Min(at) + Len(lit), n1(Min(at)) - 1))

\* re.search(r'maxMemory: (\d+\s*\w+)', line): None, or group 1.  The digits
\* are followed by spaces and a word; when no word follows, the last digit
\* of two or more is taken for the word.
MaxMemoryMatch(line) ==
    LET lit == S("maxMemory: ")
        d1(i) == SpanEnd(line, i + Len(lit), Digits)
        w0(i) == SpanEnd(line, d1(i), SpaceChars)
        w1(i) == SpanEnd(line, w0(i), WordChars)
        at == {i \in Occurrences(line, lit) :
                 /\ d1(i) > i + Len(lit)
                 /\ w1(i) > w0(i) \/ d1(i) > i + Len(lit) + 1}
        i0 == Min(at)
    IN  IF at = {} THEN None
        ELSE Some(SubSeq(line, i0 + Len(lit),
                         IF w1(i0) > w0(i0) THEN w1(i0) - 1 ELSE d1(i0) - 1))

\* The body of the loop of extract_dast_scan_info.
dast_scan_info_step(scan_info, line) ==
    LET started == Contains(line, S("ZAP")) /\ Contains(line, S("started"))
        scanning == Contains(line, S("Scanning")) /\ Contains(line, S("node(s) from"))
        put_group(d, searched, key, m) ==
            IF searched /\ m # None THEN Put(d, key, m[1]) ELSE d
        put_status(d) ==
            IF Contains(line, S("Automation plan succeeded"))
            THEN Put(d, "status", S("Succeeded"))
            ELSE IF Contains(line, S("Automation plan failed"))
            THEN Put(d, "status", S("Failed"))
            ELSE d
        put_completed(d) ==
            IF Contains(line, S("ZAP")) /\ Contains(line, S("terminated"))
            THEN Put(d, "completed", TRUE)
            ELSE d
    IN  put_completed(put_status(
            put_group(
                put_group(
                    put_group(
                        put_group(scan_info, started, "zap_version",
                                  WordAfter(line, S("ZAP "), S(" started"))),
                        started, "cores", DigitsAfter(line, S("cores: "), <<>>)),
                    started, "max_memory", MaxMemoryMatch(line)),
                scanning, "target_url", WordAfter(line, S("from "), <<>>))))

\* extract_dast_scan_info(lines)
extract_dast_scan_info(lines) == FoldLeft(dast_scan_info_step, EmptyDict, lines)

\* re.search(r'Job (\S+) finished, time taken: (\S+)', line): None, or the
\* job's name and duration
JobFinishedMatch(line) ==
    LET lit == S("Job ")
        mid == S(" finished, time taken: ")
        n1(i) == SpanEndNot(line, i + Len(lit), SpaceChars)
        t0(i) == n1(i) + Len(mid)
        t1(i) == SpanEndNot(line, t0(i), SpaceChars)
        at == {i \in Occurrences(line, lit) :
                 /\ n1(i) > i + Len(lit)
                 /\ StartsAt(line, n1(i), mid)
                 /\ t1(i) > t0(i)}
        i0 == Min(at)
    IN  IF at = {} THEN None
        ELSE Some([name |-> SubSeq(line, i0 + Len(lit), n1(i0) - 1),
                   duration |-> SubSeq(line, t0(i0), t1(i0) - 1)])

\* The body of the loop of extract_jobs; a job is a dict.
extract_jobs_step(acc, line) ==
    LET job_started(a, started) ==
            IF /\ Contains(line, S("Job")) /\ Contains(line, S("started"))
               /\ started # None
            THEN [a EXCEPT !.current_job =
                      Some([name |-> started[1], status |-> S("running")])]
            ELSE a
        job_finished(a, finished) ==
            IF /\ Contains(line, S("Job")) /\ Contains(line, S("finished"))
               /\ finished # None
            THEN [a EXCEPT !.jobs =
                      Append(@, [name |-> finished[1].name,
                                 duration |-> finished[1].duration,
                                 status |-> S("completed")])]
            ELSE a
        urls_added(a, added) ==
            IF /\ Contains(line, S("Job")) /\ Contains(line, S("added"))
               /\ Contains(line, S("URLs"))
               /\ added # None
               /\ a.jobs # <<>>
            THEN [a EXCEPT !.jobs[Len(a.jobs)] = Put(@, "urls_added", ParseInt(added[1]))]
            ELSE a
    IN  urls_added(job_finished(job_started(acc, WordAfter(line, S("Job "), S(" started"))),
                                JobFinishedMatch(line)),
                   DigitsAfter(line, S("added "), S(" URLs")))

\* extract_jobs(lines)
extract_jobs(lines) ==
    FoldLeft(extract_jobs_step, [jobs |-> <<>>, current_job |-> None], lines).jobs

\* float(s) for a text of digits and dots: None when it raises ValueError
\* (no digit, or more than one dot), else Some of the value as the pair
\* <<m, e>> standing for m / 10^e with no trailing zero in the decimals.
RECURSIVE Reduced(_, _)
Reduced(m, e) == IF e > 0 /\ m % 10 = 0 THEN Reduced(m \div 10, e - 1) ELSE <<m, e>>

PyFloat(s) ==
    LET dots == {i \in DOMAIN s : s[i] = "."}
        digits == SelectSeq(s, LAMBDA c : c # ".")
    IN  IF Cardinality(dots) > 1 \/ digits = <<>> THEN None
        ELSE Some(Reduced(ParseInt(digits),
                          IF dots = {} THEN 0 ELSE Len(s) - Min(dots)))

\* re.search(r'\| (\w+) in ([\d.]+)s with (\d+) message\(s\) sent and (\d+)
\* alert\(s\) raised', line): None, or the four groups
ActiveRuleMatch(line) ==
    LET n1(i) == SpanEnd(line, i + 2, WordChars)
        d0(i) == n1(i) + Len(S(" in "))
        d1(i) == SpanEnd(line, d0(i), Digits \cup {"."})
        m0(i) == d1(i) + Len(S("s with "))
        m1(i) == SpanEnd(line, m0(i), Digits)
        a0(i) == m1(i) + Len(S(" message(s) sent and "))
        a1(i) == SpanEnd(line, a0(i), Digits)
        at == {i \in Occurrences(line, S("| ")) :
                 /\ n1(i) > i + 2
                 /\ StartsAt(line, n1(i), S(" in "))
                 /\ d1(i) > d0(i)
                 /\ StartsAt(line, d1(i), S("s with "))
                 /\ m1(i) > m0(i)
                 /\ StartsAt(line, m1(i), S(" message(s) sent and "))
                 /\ a1(i) > a0(i)
                 /\ StartsAt(line, a1(i), S(" alert(s) raised"))}
        i0 == Min(at)
    IN  IF at = {} THEN None
        ELSE Some([name |-> SubSeq(line, i0 + 2, n1(i0) - 1),
                   duration |-> SubSeq(line, d0(i0), d1(i0) - 1),
                   messages_sent |-> ParseInt(SubSeq(line, m0(i0), m1(i0) - 1)),
                   alerts_raised |-> ParseInt(SubSeq(line, a0(i0), a1(i0) - 1))])

\* re.search(r'Loaded passive scan rule: (.+)$', line): None, or group 1
PassiveRuleMatch(line) ==
    LET lit == S("Loaded passive scan rule: ")
        at == {i \in Occurrences(line, lit) : RestMatches(line, i + Len(lit))}
    IN  IF at = {} THEN None
        ELSE Some(SubSeq(line, Min(at) + Len(lit), DotEnd(line)))

\* The body of the loop of extract_scan_rules; raised tells that float()
\* raised ValueError on a duration, which ends the analysis.
extract_scan_rules_step(acc, line) ==
    LET passive_rule(a, passive) ==
            IF Contains(line, S("Loaded passive scan rule:")) /\ passive # None
            THEN [a EXCEPT !.passive_rules = Append(@, Strip(passive[1]))]
            ELSE a
        timed(a, rule, duration) ==
            IF duration = None
            THEN [a EXCEPT !.raised = TRUE]
            ELSE [a EXCEPT !.active_rules =
                      Append(@, [name |-> rule.name,
                                 duration |-> duration[1],
                                 messages_sent |-> rule.messages_sent,
                                 alerts_raised |-> rule.alerts_raised])]
        active_rule(a, active) ==
            IF Contains(line, S("completed host/plugin")) /\ active # None
            THEN timed(a, active[1], PyFloat(active[1].duration))
            ELSE a
    IN  IF acc.raised THEN acc
        ELSE active_rule(passive_rule(acc, PassiveRuleMatch(line)), ActiveRuleMatch(line))

\* extract_scan_rules(lines)
extract_scan_rules(lines) ==
    FoldLeft(extract_scan_rules_step,
             [passive_rules |-> <<>>, active_rules |-> <<>>, raised |-> FALSE], lines)

\* The least start, from position `from` on, of a match of
\* id=(\w+), version=([\d.]+) in text, or 0.
AddonAt(text, from) ==
    LET n1(i) == SpanEnd(text, i + 3, WordChars)
        v0(i) == n1(i) + Len(S(", version="))
        at == {i \in {j \in Occurrences(text, S("id=")) : j >= from} :
                 /\ n1(i) > i + 3
                 /\ StartsAt(text, n1(i), S(", version="))
                 /\ SpanEnd(text, v0(i), Digits \cup {"."}) > v0(i)}
    IN  IF at = {} THEN 0 ELSE Min(at)

RECURSIVE AddonsIn(_, _)
\* [{'id': i, 'version': v} for i, v in re.findall(r'id=(\w+), version=([\d.]+)', text)]
AddonsIn(text, from) ==
    LET i == AddonAt(text, from)
        n1 == SpanEnd(text, i + 3, WordChars)
        v0 == n1 + Len(S(", version="))
        v1 == SpanEnd(text, v0, Digits \cup {"."})
    IN  IF i = 0 THEN <<>>
        ELSE <<[id |-> SubSeq(text, i + 3, n1 - 1), version |-> SubSeq(text, v0, v1 - 1)]>>
             \o AddonsIn(text, v1)

\* re.search(r'\[\[(.+)\]\]', line): None, or group 1, from the first [[ to
\* the last ]] of a line without line break
AddonListMatch(line) ==
    LET closes(i) == {j \in Occurrences(line, S("]]")) : j >= i + 3}
        at == {i \in Occurrences(line, S("[[")) : closes(i) # {}}
    IN  IF at = {} THEN None
        ELSE Some(SubSeq(line, Min(at) + 2, Max(closes(Min(at))) - 1))

\* The body of the loop of extract_addons.
extract_addons_step(addons, line) ==
    LET m == AddonListMatch(line)
    IN  IF Contains(line, S("Installed add-ons:")) /\ m # None
        THEN addons \o AddonsIn(m[1], 1)
        ELSE addons

\* extract_addons(lines)
extract_addons(lines) == FoldLeft(extract_addons_step, <<>>, lines)

\* The body of the loop of analyze_dast_log.
analyze_dast_log_step(acc, line) ==
    LET record(r) ==
            [parsed_lines |-> Append(acc.parsed_lines, r),
             errors |-> IF r.level = S("ERROR") THEN Append(acc.errors, r) ELSE acc.errors,
             warnings |-> IF r.level # S("ERROR") /\ r.level = S("WARN")
                          THEN Append(acc.warnings, r) ELSE acc.warnings]
        step(parsed) == IF parsed = None THEN acc ELSE record(parsed[1])
    IN  step(parse_dast_log_line(line))

RECURSIVE Sum(_)
\* sum(xs)
Sum(xs) == IF xs = <<>> THEN 0 ELSE Head(xs) + Sum(Tail(xs))

\* analyze_dast_log(content): the analysis, or [raised |-> TRUE] when a rule
\* duration makes float() raise ValueError
analyze_dast_log(content) ==
    LET stamp(parsed_lines, i) ==
            IF parsed_lines = <<>> THEN None ELSE Some(parsed_lines[i].timestamp)
        result(lines, acc, scan_rules, active) ==
            IF scan_rules.raised THEN [raised |-> TRUE]
            ELSE [raised |-> FALSE,
                  total_lines |-> Len(lines),
                  parsed_lines |-> Len(acc.parsed_lines),
                  errors |-> acc.errors,
                  warnings |-> acc.warnings,
                  scan_info |-> extract_dast_scan_info(lines),
                  jobs |-> extract_jobs(lines),
                  passive_rules |-> scan_rules.passive_rules,
                  active_rules |-> active,
                  addons |-> extract_addons(lines),
                  total_messages |-> Sum([i \in DOMAIN active |-> active[i].messages_sent]),
                  total_alerts |-> Sum([i \in DOMAIN active |-> active[i].alerts_raised]),
                  first_timestamp |-> stamp(acc.parsed_lines, 1),
                  last_timestamp |-> stamp(acc.parsed_lines, Len(acc.parsed_lines))]
        ruled(lines, acc, scan_rules) == result(lines, acc, scan_rules, scan_rules.active_rules)
        analysis(lines) ==
            ruled(lines,
                  FoldLeft(analyze_dast_log_step,
                           [parsed_lines |-> <<>>, errors |-> <<>>, warnings |-> <<>>], lines),
                  extract_scan_rules(lines))
    IN  analysis(Split(content, "\n"))

(***************************************************************************)
(* Comparator: services/log_comparator.py.                                 *)
(***************************************************************************)

\* content.split('\n')[:150]
SampleLines == 150

\* detect_log_type with the first line as its sample
detect_log_type_first_line(content) ==
    LET sample == Join(Take(Split(content, "\n"), 1), S("\n"))
        is_sast_engine_format ==
            /\ Contains(sample, S("Available memory:"))
            /\ Contains(sample, S("Used memory:"))
            /\ Contains(sample, S("Elapsed Time:"))
    IN  IF is_sast_engine_format \/ Contains(sample, S("Checkmarx Engine Service"))
        THEN S("cxsast")
        ELSE S("cxone")

\* detect_log_type with a sample of one line more
detect_log_type_longer(content) ==
    LET sample == Join(Take(Split(content, "\n"), SampleLines + 1), S("\n"))
        lower == Lower(sample)
        is_sast_engine_format ==
            /\ Contains(sample, S("Available memory:"))
            /\ Contains(sample, S("Used memory:"))
            /\ Contains(sample, S("Elapsed Time:"))
        is_cxone_cloud ==
            \/ Contains(lower, S("sast-engine-worker"))
            \/ Contains(sample, S("OS: Unix"))
            \/ Contains(sample, S("OS: Linux"))
            \/ Contains(sample, S("/app/Engine"))
            \/ Contains(sample, S("kubernetes.io"))
            \/ Contains(sample, S("/usr/share/dotnet"))
    IN  IF is_sast_engine_format
        THEN IF is_cxone_cloud THEN S("cxone_sast") ELSE S("cxsast")
        ELSE IF Contains(sample, S("Checkmarx Engine Service")) THEN S("cxsast")
        ELSE S("cxone")

\* detect_log_type with the service marker looked for first
detect_log_type_service_first(content) ==
    LET sample == Join(Take(Split(content, "\n"), SampleLines), S("\n"))
        lower == Lower(sample)
        is_sast_engine_format ==
            /\ Contains(sample, S("Available memory:"))
            /\ Contains(sample, S("Used memory:"))
            /\ Contains(sample, S("Elapsed Time:"))
        is_cxone_cloud ==
            \/ Contains(lower, S("sast-engine-worker"))
            \/ Contains(sample, S("OS: Unix"))
            \/ Contains(sample, S("OS: Linux"))
            \/ Contains(sample, S("/app/Engine"))
            \/ Contains(sample, S("kubernetes.io"))
            \/ Contains(sample, S("/usr/share/dotnet"))
    IN  IF Contains(sample, S("Checkmarx Engine Service")) THEN S("cxsast")
        ELSE IF is_sast_engine_format
        THEN IF is_cxone_cloud THEN S("cxone_sast") ELSE S("cxsast")
        ELSE S("cxone")

\* detect_log_type(content)
detect_log_type(content) ==
    LET sample == Join(Take(Split(content, "\n"), SampleLines), S("\n"))
        lower == Lower(sample)
        is_sast_engine_format ==
            /\ Contains(sample, S("Available memory:"))
            /\ Contains(sample, S("Used memory:"))
            /\ Contains(sample, S("Elapsed Time:"))
        is_cxone_cloud ==
            \/ Contains(lower, S("sast-engine-worker"))
            \/ Contains(sample, S("OS: Unix"))
            \/ Contains(sample, S("OS: Linux"))
            \/ Contains(sample, S("/app/Engine"))
            \/ Contains(sample, S("kubernetes.io"))
            \/ Contains(sample, S("/usr/share/dotnet"))
    IN  IF is_sast_engine_format
        THEN IF is_cxone_cloud THEN S("cxone_sast") ELSE S("cxsast")
        ELSE IF Contains(sample, S("Checkmarx Engine Service")) THEN S("cxsast")
        ELSE IF Contains(sample, S("CxOne")) \/ Contains(lower, S("cx-one")) THEN S("cxone")
        ELSE IF Contains(lower, S("ast-sast")) THEN S("cxone")
        ELSE IF Contains(sample, S("INFO  QueryResolver")) THEN S("cxone")
        ELSE IF Contains(sample, S("Starting Query:")) THEN S("cxone")
        ELSE S("cxone")

RECURSIVE Format(_)
\* f'{n}' for an int n
Format(n) ==
    IF n < 0 THEN <<"-">> \o Format(0 - n)
    ELSE IF n < 10 THEN <<S("0123456789")[n + 1]>>
    ELSE Format(n \div 10) \o <<S("0123456789")[(n % 10) + 1]>>

\* The scan mode string of the engine branch of normalize_analysis.
engine_scan_mode(scan_info) ==
    IF Get(scan_info, "incremental_skipped", FALSE)
    THEN S("Incremental (Skipped - 0 changes)")
    ELSE IF Get(scan_info, "is_incremental", FALSE)
    THEN LET files_changed == Get(scan_info, "incremental_files_changed", None)
         IN  IF files_changed # None
             THEN S("Incremental (") \o Format(files_changed[1]) \o S(" files changed)")
             ELSE S("Incremental")
    ELSE S("Full Scan")

\* generic_scan_mode with the incremental flag read before the skipped flag
generic_scan_mode_incremental_first(scan_info) ==
    IF Get(scan_info, "is_incremental", FALSE)
    THEN LET files_changed == Get(scan_info, "incremental_files_changed", None)
         IN  IF files_changed # None
             THEN S("Incremental (") \o Format(files_changed[1]) \o S(" files changed)")
             ELSE S("Incremental")
    ELSE IF Get(scan_info, "incremental_skipped", FALSE)
    THEN S("Incremental (Skipped - 0 changes)")
    ELSE S("Full Scan")

\* The scan mode string of the generic branch of normalize_analysis.
generic_scan_mode(scan_info) ==
    IF Get(scan_info, "incremental_skipped", FALSE)
    THEN S("Incremental (Skipped - 0 changes)")
    ELSE IF Get(scan_info, "is_incremental", FALSE)
    THEN LET files_changed == Get(scan_info, "incremental_files_changed", None)
         IN  IF files_changed # None
             THEN S("Incremental (") \o Format(files_changed[1]) \o S(" files changed)")
             ELSE S("Incremental")
    ELSE S("Full Scan")

\* The body of the loop that builds query_dict in the engine branch.
engine_query_step(query_dict, q) ==
    Put(query_dict, q.language \o S(".") \o q.name,
        [results |-> q.results, duration |-> q.duration, status |-> q.status])

\* The body of the loop that builds query_dict in the generic branch.
generic_query_step(query_dict, q) ==
    Put(query_dict,
        Get(q, "language", S("Unknown")) \o S(".") \o Get(q, "group", <<>>)
            \o S(".") \o Get(q, "name", S("Unknown")),
        [results |-> 0, duration |-> S("00:00:00"), status |-> S("success")])

\* normalize_analysis(analysis, log_type), where files lists the elements of
\* set(files_processed) in the order that set iterates.
normalize_analysis(analysis, log_type, files) ==
    LET scan_info == Get(analysis, "scan_info", EmptyDict)
        errors == Get(analysis, "errors", <<>>)
    IN  IF log_type \in {S("cxsast"), S("cxone_sast")}
        THEN LET queries == Get(analysis, "queries", <<>>)
             IN  [log_type |-> IF log_type = S("cxone_sast") THEN S("CxOne SAST")
                               ELSE S("CxSAST (On-Prem)"),
                  project_name |-> Get(scan_info, "project_name", S("Unknown")),
                  total_time |-> Get(analysis, "total_elapsed_time", S("00:00:00")),
                  files_count |-> Len(Get(analysis, "files_processed", <<>>)),
                  files |-> files,
                  queries_count |-> Len(queries),
                  queries |-> FoldLeft(engine_query_step, EmptyDict, queries),
                  total_results |->
                      Get(Get(analysis, "query_totals", EmptyDict), "total_results", 0),
                  errors_count |-> Len(errors),
                  errors |-> errors,
                  languages |-> Get(analysis, "languages", EmptyDict),
                  loc |-> Get(analysis, "scanned_loc", 0),
                  peak_memory |-> Get(analysis, "peak_memory", 0),
                  is_incremental |-> Get(scan_info, "is_incremental", FALSE),
                  incremental_files_changed |->
                      Get(scan_info, "incremental_files_changed", None),
                  incremental_skipped |-> Get(scan_info, "incremental_skipped", FALSE),
                  scan_mode |-> engine_scan_mode(scan_info)]
        ELSE LET queries == Get(analysis, "queries_run", <<>>)
             IN  [log_type |-> S("CxOne"),
                  project_name |->
                      Get(scan_info, "project_name",
                          Get(scan_info, "hostname", S("Unknown"))),
                  total_time |-> Get(analysis, "total_elapsed_time", S("00:00:00")),
                  files_count |-> Len(Get(analysis, "files_processed", <<>>)),
                  files |-> files,
                  queries_count |-> Len(queries),
                  queries |-> FoldLeft(generic_query_step, EmptyDict, queries),
                  total_results |-> 0,
                  errors_count |-> Len(errors),
                  errors |-> errors,
                  languages |-> EmptyDict,
                  loc |-> 0,
                  peak_memory |-> 0,
                  is_incremental |-> Get(scan_info, "is_incremental", FALSE),
                  incremental_files_changed |->
                      Get(scan_info, "incremental_files_changed", None),
                  incremental_skipped |-> Get(scan_info, "incremental_skipped", FALSE),
                  scan_mode |-> generic_scan_mode(scan_info)]

\* The files an analysis of content tracks, as the set the analyzer builds.
files_of(content) ==
    IF detect_log_type(content) \in {S("cxsast"), S("cxone_sast")}
    THEN extract_files_processed(Split(content, "\n"))
    ELSE analyze_log_loop(Split(content, "\n")).files_processed

\* analyze_and_normalize(content), where listed is the order of
\* list(files_processed) in the analyzer and files the order in which
\* set(files_processed) iterates in normalize_analysis.
analyze_and_normalize(content, listed, files) ==
    LET log_type == detect_log_type(content)
    IN  normalize_analysis(IF log_type \in {S("cxsast"), S("cxone_sast")}
                           THEN analyze_sast_log(content, listed)
                           ELSE analyze_log(content, listed),
                           log_type, files)

\* a < b for two str: by code point, a proper prefix first.
StrLess(a, b) ==
    LET shorter == IF Len(a) < Len(b) THEN Len(a) ELSE Len(b)
        differ == {i \in 1..shorter : a[i] # b[i]}
    IN  IF differ = {} THEN Len(a) < Len(b)
        ELSE Ord(a[Min(differ)]) < Ord(b[Min(differ)])

\* xs with x put before the first element that Less places after x.
InsertBy(Less(_, _), xs, x) ==
    LET after == {i \in DOMAIN xs : Less(x, xs[i])}
        at == IF after = {} THEN Len(xs) + 1 ELSE Min(after)
    IN  SubSeq(xs, 1, at - 1) \o <<x>> \o SubSeq(xs, at, Len(xs))

RECURSIVE SortedBy(_, _)
\* sorted(xs) under the order Less: stable, equal elements keep their order.
SortedBy(Less(_, _), xs) ==
    IF xs = <<>> THEN <<>>
    ELSE InsertBy(Less, SortedBy(Less, SubSeq(xs, 1, Len(xs) - 1)), xs[Len(xs)])

\* sorted(a_set) for a set of str
Sorted(set) == SortedBy(StrLess, CHOOSE l \in ListsOf(set) : TRUE)

\* get_filename without the split: the whole path names the file
get_filename_whole(path) == ReplaceChar(path, "\\", "/")

\* get_filename(path) of compare_logs
get_filename(path) ==
    LET parts == Split(ReplaceChar(path, "\\", "/"), "/")
    IN  parts[Len(parts)]

\* The body of the comprehension {get_filename(f): f for f in files}.
by_name_step(by_name, f) == Put(by_name, get_filename(f), f)

\* abs(n)
Abs(n) == IF n < 0 THEN 0 - n ELSE n

\* LargerDiff on the signed difference
LargerSignedDiff(x, y) == x.diff > y.diff

\* The order of sorted(queries_changed, key=lambda x: abs(x['diff']), reverse=True).
LargerDiff(x, y) == Abs(x.diff) > Abs(y.diff)

\* norm['errors'][:10]
ErrorsShown == 10

\* e.get('message', str(e))[:100]
MessageShown == 100

\* error_messages with every message whole
error_messages_uncut(errors) ==
    [i \in 1..Len(Take(errors, ErrorsShown)) |-> errors[i].message]

\* The error messages that errors_diff shows for one side; every error
\* record the analyzers make carries a message.
error_messages(errors) ==
    [i \in 1..Len(Take(errors, ErrorsShown)) |-> Take(errors[i].message, MessageShown)]

\* The summary compare_logs makes of the two analyses.
summary_of(norm1, norm2) ==
    [log_type |-> <<norm1.log_type, norm2.log_type>>,
     project_name |-> <<norm1.project_name, norm2.project_name>>,
     scan_mode |-> <<Get(norm1, "scan_mode", S("Unknown")),
                     Get(norm2, "scan_mode", S("Unknown"))>>,
     total_time |-> <<norm1.total_time, norm2.total_time>>,
     files_count |-> <<norm1.files_count, norm2.files_count>>,
     queries_count |-> <<norm1.queries_count, norm2.queries_count>>,
     total_results |-> <<norm1.total_results, norm2.total_results>>,
     errors_count |-> <<norm1.errors_count, norm2.errors_count>>,
     loc |-> <<norm1.loc, norm2.loc>>,
     peak_memory |-> <<norm1.peak_memory, norm2.peak_memory>>]

\* files_diff with every kept file of the first analysis under only_in_1
files_diff_all_of_1(files1, files2) ==
    LET files1_by_name == FoldLeft(by_name_step, EmptyDict, files1)
        files2_by_name == FoldLeft(by_name_step, EmptyDict, files2)
        files1_names == DOMAIN files1_by_name
        files2_names == DOMAIN files2_by_name
    IN  [only_in_1 |-> Sorted({files1_by_name[n] : n \in files1_names}),
         only_in_2 |-> Sorted({files2_by_name[n] : n \in files2_names \ files1_names}),
         in_both |-> Sorted({files1_by_name[n] : n \in files1_names \cap files2_names})]

\* files_diff with every file of the second analysis under only_in_2
files_diff_all_of_2(files1, files2) ==
    LET files1_by_name == FoldLeft(by_name_step, EmptyDict, files1)
        files2_by_name == FoldLeft(by_name_step, EmptyDict, files2)
        files1_names == DOMAIN files1_by_name
        files2_names == DOMAIN files2_by_name
    IN  [only_in_1 |-> Sorted({files1_by_name[n] : n \in files1_names \ files2_names}),
         only_in_2 |-> Sorted({files2_by_name[n] : n \in files2_names}),
         in_both |-> Sorted({files1_by_name[n] : n \in files1_names \cap files2_names})]

\* The files diff compare_logs makes of the files of the two analyses, each
\* given in the order its set iterates.
files_diff(files1, files2) ==
    LET files1_by_name == FoldLeft(by_name_step, EmptyDict, files1)
        files2_by_name == FoldLeft(by_name_step, EmptyDict, files2)
        files1_names == DOMAIN files1_by_name
        files2_names == DOMAIN files2_by_name
    IN  [only_in_1 |-> Sorted({files1_by_name[n] : n \in files1_names \ files2_names}),
         only_in_2 |-> Sorted({files2_by_name[n] : n \in files2_names \ files1_names}),
         in_both |-> Sorted({files1_by_name[n] : n \in files1_names \cap files2_names})]

\* queries_diff with in_both counting the keys of either side
queries_diff_either(norm1_queries, norm2_queries, both) ==
    LET queries1 == DOMAIN norm1_queries
        queries2 == DOMAIN norm2_queries
        changed == SelectSeq(both, LAMBDA q : norm1_queries[q].results # norm2_queries[q].results)
        queries_changed ==
            [i \in DOMAIN changed |->
                [name |-> changed[i],
                 results_1 |-> norm1_queries[changed[i]].results,
                 results_2 |-> norm2_queries[changed[i]].results,
                 diff |-> norm2_queries[changed[i]].results
                          - norm1_queries[changed[i]].results]]
    IN  [only_in_1 |-> Sorted(queries1 \ queries2),
         only_in_2 |-> Sorted(queries2 \ queries1),
         in_both |-> Cardinality(queries1 \cup queries2),
         results_changed |-> SortedBy(LargerDiff, queries_changed)]

\* The queries diff compare_logs makes of the query maps of the two
\* analyses, where both lists the elements of the set queries1 & queries2
\* in the order that set iterates.
queries_diff(norm1_queries, norm2_queries, both) ==
    LET queries1 == DOMAIN norm1_queries
        queries2 == DOMAIN norm2_queries
        changed == SelectSeq(both, LAMBDA q : norm1_queries[q].results # norm2_queries[q].results)
        queries_changed ==
            [i \in DOMAIN changed |->
                [name |-> changed[i],
                 results_1 |-> norm1_queries[changed[i]].results,
                 results_2 |-> norm2_queries[changed[i]].results,
                 diff |-> norm2_queries[changed[i]].results
                          - norm1_queries[changed[i]].results]]
    IN  [only_in_1 |-> Sorted(queries1 \ queries2),
         only_in_2 |-> Sorted(queries2 \ queries1),
         in_both |-> Cardinality(queries1 \cap queries2),
         results_changed |-> SortedBy(LargerDiff, queries_changed)]

\* compare_logs with the error messages of the second analysis shown whole
compare_logs_second_uncut(norm1, norm2, both) ==
    [summary |-> summary_of(norm1, norm2),
     files_diff |-> files_diff(norm1.files, norm2.files),
     queries_diff |-> queries_diff(norm1.queries, norm2.queries, both),
     errors_diff |-> [errors_1 |-> error_messages(norm1.errors),
                      errors_2 |-> error_messages_uncut(norm2.errors)]]

\* compare_logs(norm1, norm2), where both lists the elements of the set
\* queries1 & queries2 in the order that set iterates.
compare_logs(norm1, norm2, both) ==
    [summary |-> summary_of(norm1, norm2),
     files_diff |-> files_diff(norm1.files, norm2.files),
     queries_diff |-> queries_diff(norm1.queries, norm2.queries, both),
     errors_diff |-> [errors_1 |-> error_messages(norm1.errors),
                      errors_2 |-> error_messages(norm2.errors)]]

(***************************************************************************)
(* Comparison table: tabs/log_analyzer.py.                                 *)
(***************************************************************************)

\* _calc_diff with the difference taken the other way round
calc_diff_reversed(val1, val2) ==
    LET diff == val1 - val2
    IN  IF diff = 0 THEN S("=")
        ELSE (IF diff > 0 THEN S("+") ELSE <<>>) \o Format(diff)

\* _calc_diff(val1, val2) for two int: the text of the Diff column.
\* The parameter invert is not read by the code.
calc_diff(val1, val2) ==
    LET diff == val2 - val1
    IN  IF diff = 0 THEN S("=")
        ELSE (IF diff > 0 THEN S("+") ELSE <<>>) \o Format(diff)

(***************************************************************************)
(* Calls: each call of an analysis keeps its lists and dicts in its frame. *)
(***************************************************************************)

\* locals with every call reading the frame of the first call
locals_of_first(frames, call) == frames["t1"]

\* The local variables of a call: analyze_log, analyze_sast_log,
\* normalize_analysis and compare_logs create their lists, sets and dicts
\* inside the call and read no variable of the module.
locals(frames, call) == frames[call]

(***************************************************************************)
(* Inputs.                                                                 *)
(***************************************************************************)

MaxPathPieces == 5

Uuid1 == S("01234567-89ab-cdef-0123-456789abcdef")

Uuid2 == S("ABCDEF01-2345-6789-abcd-ef0123456789")

\* one character short of hexadecimal
NotUuid == S("0123456g-89ab-cdef-0123-456789abcdef")

\* The paths are cut out of log lines, which hold no line break.
PathPieces == {Uuid1, Uuid2, NotUuid, S("a"), S("/"), S("\\")}

RECURSIVE SeqsUpTo(_, _)
\* the sequences over A of length at most n
SeqsUpTo(A, n) ==
    IF n = 0 THEN {<<>>}
    ELSE LET shorter == SeqsUpTo(A, n - 1)
         IN  shorter \cup {Append(s, a) : s \in {t \in shorter : Len(t) = n - 1}, a \in A}

Paths == {Concat(ps) : ps \in SeqsUpTo(PathPieces, MaxPathPieces)}

(***************************************************************************)
(* The runs.                                                               *)
(***************************************************************************)

Done(k) == k \in DOMAIN out

InitPath ==
    /\ task = "path"
    /\ input \in Paths
    /\ out = EmptyDict

\* normalize_filepath(p)
NormalizeFilepath ==
    /\ task = "path"
    /\ ~Done("normalized")
    /\ out' = Put(out, "normalized", normalize_filepath(input))
    /\ UNCHANGED <<task, input>>

\* normalize_filepath applied to its own result
NormalizeAgain ==
    /\ task = "path"
    /\ Done("normalized")
    /\ ~Done("renormalized")
    /\ out' = Put(out, "renormalized", normalize_filepath(out.normalized))
    /\ UNCHANGED <<task, input>>

NextPath == NormalizeFilepath \/ NormalizeAgain

SpecPath == InitPath /\ [][NextPath]_vars


(***************************************************************************)
(* Path Normalizer properties.                                             *)
(***************************************************************************)

\* C1: normalize_filepath is idempotent: normalizing the result of a
\* normalization gives that result again, for every path, also one holding
\* more than one UUID-shaped segment.
C1_Idempotent ==
    Done("renormalized") => out.renormalized = out.normalized

\* The start of the first whole segment of path (text between separators)
\* that has the UUID shape, or 0 when the path has none.
FirstUuidSegment(path) ==
    LET at == {i \in 1..Len(path) :
                 /\ i = 1 \/ path[i - 1] = "/"
                 /\ UuidAt(path, i)
                 /\ i + UuidLen > Len(path) \/ path[i + UuidLen] = "/"}
    IN  IF at = {} THEN 0 ELSE Min(at)

\* C2 as stated: a path holding a UUID-shaped segment is cut to everything
\* after that segment's trailing separator, any other path only has its
\* separators normalized.
C2_AfterUuidSegment ==
    Done("normalized") =>
        LET path == ReplaceChar(input, "\\", "/")
            i == FirstUuidSegment(path)
        IN  out.normalized = IF i = 0 THEN path ELSE From(path, i + UuidLen + 1)

\* The starts of the UUID-shaped runs of characters of path that are followed
\* by a slash and at least one more character.
UuidRuns(path) ==
    {i \in 1..Len(path) :
        /\ UuidAt(path, i)
        /\ i + UuidLen + 1 <= Len(path)
        /\ path[i + UuidLen] = "/"}

\* C2 amended: for every path without a line break (every path cut out of a
\* log line), the result is the
\* separator-normalized path cut to what follows the first UUID-shaped run
\* of characters (a whole segment or the end of one) that is followed by a
\* separator and at least one more character; a path without such a run only
\* has its separators normalized.
C2_AfterFirstUuidRun ==
    (Done("normalized") /\ ~Contains(input, S("\n"))) =>
        LET path == ReplaceChar(input, "\\", "/")
            runs == UuidRuns(path)
        IN  out.normalized =
                IF runs = {} THEN path ELSE From(path, Min(runs) + UuidLen + 1)

\* C2 witness: a backslash path with two UUID-shaped segments has been cut
\* after the first of them.
C2_Witness ==
    /\ input = Concat(<<Uuid1, S("\\"), Uuid2, S("\\"), S("a")>>)
    /\ Done("normalized")
    /\ out.normalized = Concat(<<Uuid2, S("/"), S("a")>>)

(***************************************************************************)
(* Log analyses: one uploaded log, analyzed by each of the analyzers.      *)
(***************************************************************************)

MaxLogLines == 3

\* A line of the engine grammar.
EngineLine(level, phase, message) ==
    S("01/02/2025 10:00:00,001 [12] ") \o level
        \o S("  Available memory: 100 Used memory: 250 Elapsed Time: 00:00:01.000 [")
        \o phase \o S("] - ") \o message

\* A line of the DAST grammar.
DastLine(level, message) ==
    S("2025-01-02 10:00:00,001 [main] ") \o level \o S("  org.zap.Scan - ") \o message

\* Each line fails the grammar of the other analyzers, and the log of no
\* line at all is one empty line, which fails all of them.
LogLines ==
    {EngineLine(S("ERROR"), S("Queries"), S("boom")),
     EngineLine(S("WARN"), S("Parse"), S("slow")),
     EngineLine(S("INFO"), S("Parse"), S("Finished processing file: src/a.js")),
     DastLine(S("ERROR"), S("boom")),
     DastLine(S("WARN"), S("slow"))}

Logs == {Join(ls, S("\n")) : ls \in SeqsUpTo(LogLines, MaxLogLines)}

InitLog ==
    /\ task = "log"
    /\ input \in Logs
    /\ out = EmptyDict

\* analyze_log(content)
AnalyzeLog ==
    /\ task = "log"
    /\ ~Done("analysis")
    /\ \E files \in ListsOf(analyze_log_loop(Split(input, "\n")).files_processed) :
           out' = Put(out, "analysis", analyze_log(input, files))
    /\ UNCHANGED <<task, input>>

\* analyze_sast_log(content)
AnalyzeSastLog ==
    /\ task = "log"
    /\ ~Done("sast")
    /\ \E files \in ListsOf(extract_files_processed(Split(input, "\n"))) :
           out' = Put(out, "sast", analyze_sast_log(input, files))
    /\ UNCHANGED <<task, input>>

\* analyze_dast_log(content)
AnalyzeDastLog ==
    /\ task = "log"
    /\ ~Done("dast")
    /\ out' = Put(out, "dast", analyze_dast_log(input))
    /\ UNCHANGED <<task, input>>

NextLog == AnalyzeLog \/ AnalyzeSastLog \/ AnalyzeDastLog

SpecLog == InitLog /\ [][NextLog]_vars

(***************************************************************************)
(* Analyzer properties.                                                    *)
(***************************************************************************)

\* C3: in every analysis the errors and the warnings together are at most
\* the parsed lines, and the parsed lines are at most the lines of the log;
\* in a SAST analysis the memory timeline counts the parsed lines.
C3_TotalsOrdered ==
    /\ Done("analysis") =>
           /\ Len(out.analysis.errors) + Len(out.analysis.warnings)
                  <= out.analysis.parsed_lines
           /\ out.analysis.parsed_lines <= out.analysis.total_lines
    /\ (Done("dast") /\ ~out.dast.raised) =>
           /\ Len(out.dast.errors) + Len(out.dast.warnings) <= out.dast.parsed_lines
           /\ out.dast.parsed_lines <= out.dast.total_lines
    /\ Done("sast") =>
           /\ Len(out.sast.errors) + Len(out.sast.warnings)
                  <= Len(out.sast.memory_timeline)
           /\ Len(out.sast.memory_timeline) <= out.sast.total_lines

\* C3 witness: a log of an engine error line, an engine warning line and a
\* DAST error line has been analyzed by the three analyzers.
C3_Witness ==
    /\ Done("analysis") /\ Done("dast") /\ Done("sast")
    /\ out.analysis.total_lines = 3
    /\ out.analysis.parsed_lines = 2
    /\ Len(out.analysis.errors) = 1 /\ Len(out.analysis.warnings) = 1
    /\ ~out.dast.raised
    /\ out.dast.parsed_lines = 1 /\ Len(out.dast.errors) = 1
    /\ Len(out.sast.memory_timeline) = 2
    /\ Len(out.sast.errors) = 1 /\ Len(out.sast.warnings) = 1

(***************************************************************************)
(* Scan information: the metadata of one log, by each engine extractor.    *)
(***************************************************************************)

MaxScanLines == 3

ScanLines ==
    {S("Incremental Scan: number of files changed: 0."),
     S("Incremental Scan: number of files changed: 5."),
     S("Scan is in Incremental Scan State"),
     S("Incremental scan detected 3 changed files"),
     S("HostName: build-1"),
     S("Product version: 9.5.0")}

ScanLogs == {Join(ls, S("\n")) : ls \in SeqsUpTo(ScanLines, MaxScanLines)}

InitScan ==
    /\ task = "scan"
    /\ input \in ScanLogs
    /\ out = EmptyDict

\* extract_scan_info(lines) of the source-engine analyzer
ExtractScanInfo ==
    /\ task = "scan"
    /\ ~Done("scan_info")
    /\ out' = Put(out, "scan_info", extract_scan_info(Split(input, "\n")))
    /\ UNCHANGED <<task, input>>

\* extract_sast_scan_info(lines) of the SAST analyzer
ExtractSastScanInfo ==
    /\ task = "scan"
    /\ ~Done("sast_scan_info")
    /\ out' = Put(out, "sast_scan_info", extract_sast_scan_info(Split(input, "\n")))
    /\ UNCHANGED <<task, input>>

NextScan == ExtractScanInfo \/ ExtractSastScanInfo

SpecScan == InitScan /\ [][NextScan]_vars

(***************************************************************************)
(* Scan information properties.                                            *)
(***************************************************************************)

\* C8: after scanning a log, incremental_skipped is true if and only if the
\* final incremental_files_changed is 0, in the scan info of both engine
\* extractors.
C8_SkippedIffZero ==
    \A k \in {"scan_info", "sast_scan_info"} :
        Done(k) =>
            (out[k].incremental_skipped <=> out[k].incremental_files_changed = Some(0))

\* A line that reports how many files changed since the last scan.
ReportsFilesChanged(line) ==
    /\ Contains(line, S("Incremental Scan: number of files changed:"))
    /\ FilesChangedCount(line) # None

\* C9: is_incremental is true in the scan info of both engine extractors
\* whenever some line of the log holds the incremental state marker or
\* reports a count of changed files.
C9_IncrementalWhenReported ==
    \A k \in {"scan_info", "sast_scan_info"} :
        (/\ Done(k)
         /\ \E line \in Range(Split(input, "\n")) :
                \/ Contains(line, S("in Incremental Scan State"))
                \/ ReportsFilesChanged(line))
            => out[k].is_incremental

(***************************************************************************)
(* Detection: the type of one log, and of a log with the same first lines. *)
(***************************************************************************)

MaxMarkers == 3

\* The three memory and time fields of a line of the engine grammar.
EngineFields == S("Available memory: 1 Used memory: 2 Elapsed Time: 3")

\* Two of the three fields.
MemoryFields == S("Available memory: 1 Used memory: 2")

TimeField == S("Elapsed Time: 3")

ServiceMarker == S("Checkmarx Engine Service")

\* The cloud markers among the pieces of text; the pod name is matched in
\* any letter case.
CloudMarkers ==
    {S("SAST-Engine-Worker"), S("OS: Unix"), S("OS: Linux"), S("/app/Engine"),
     S("kubernetes.io"), S("/usr/share/dotnet")}

\* The pieces of text the first line of a log is made of; "OS: unix" is no
\* cloud marker.
HeadMarkers ==
    {EngineFields, MemoryFields, TimeField, ServiceMarker,
     S("SAST-Engine-Worker"), S("OS: Linux"), S("kubernetes.io"),
     S("OS: unix"), S("CxOne")}

\* The pieces of text the last line of a log is made of.
Tails ==
    {{}, {EngineFields, S("OS: Unix")}, {S("/app/Engine")},
     {S("/usr/share/dotnet")}, {ServiceMarker}}

\* The last lines of the other log.
OtherTails == {{}, {EngineFields, S("OS: Unix")}, {ServiceMarker}}

\* The empty lines between the first line and the last: the last line
\* is line SampleLines, the last one sampled, or the line after it.
Pads == {SampleLines - 2, SampleLines - 1}

\* One line of the pieces of text, in sorted order.
LineOf(markers) == Join(Sorted(markers), S(" "))

\* The log of a first line, pad empty lines and a last line.
ContentOf(markers, pad, tail) ==
    LineOf(markers) \o [i \in 1..(pad + 1) |-> "\n"] \o LineOf(tail)

InitDetect ==
    /\ task = "detect"
    /\ input \in [markers : {m \in SUBSET HeadMarkers : Cardinality(m) <= MaxMarkers},
                  pad : Pads, tail : Tails, other_tail : OtherTails]
    /\ out = EmptyDict

\* detect_log_type(content)
DetectLogType ==
    /\ task = "detect"
    /\ ~Done("log_type")
    /\ out' = Put(out, "log_type",
                  detect_log_type(ContentOf(input.markers, input.pad, input.tail)))
    /\ UNCHANGED <<task, input>>

\* detect_log_type(content) of the log with the other last line
DetectOtherLogType ==
    /\ task = "detect"
    /\ ~Done("other_log_type")
    /\ out' = Put(out, "other_log_type",
                  detect_log_type(ContentOf(input.markers, input.pad, input.other_tail)))
    /\ UNCHANGED <<task, input>>

NextDetect == DetectLogType \/ DetectOtherLogType

SpecDetect == InitDetect /\ [][NextDetect]_vars

(***************************************************************************)
(* Detection properties.                                                   *)
(***************************************************************************)

\* C4: two logs with the same first 150 lines get the same type, whatever
\* follows from line 151 on.
C4_FirstLinesDecide ==
    (/\ Done("log_type") /\ Done("other_log_type")
     /\ Take(Split(ContentOf(input.markers, input.pad, input.tail), "\n"), 150)
          = Take(Split(ContentOf(input.markers, input.pad, input.other_tail), "\n"), 150))
        => out.log_type = out.other_log_type

\* C4 witness: a log of no marker in its first 150 lines is typed as the
\* generic format, with the engine fields and a cloud marker on line 151 of
\* the one log and the service marker on line 151 of the other.
C4_Witness ==
    /\ task = "detect"
    /\ input.markers = {S("OS: unix")}
    /\ input.pad = 149
    /\ input.tail = {EngineFields, S("OS: Unix")}
    /\ input.other_tail = {ServiceMarker}
    /\ Done("log_type") /\ Done("other_log_type")
    /\ out.log_type = S("cxone")
    /\ out.other_log_type = S("cxone")

\* The pieces of text within the first 150 lines of the log.
Sampled == input.markers \cup (IF input.pad + 2 <= 150 THEN input.tail ELSE {})

\* C5: the type follows the precedence: with the three engine fields in the
\* sample, cxone_sast if a cloud marker is there and cxsast if none is, also
\* with the service marker or a product name there; else cxsast with the
\* service marker; else cxone.  The type is always one of the three.
C5_Precedence ==
    Done("log_type") =>
        /\ out.log_type \in {S("cxone_sast"), S("cxsast"), S("cxone")}
        /\ out.log_type =
               IF EngineFields \in Sampled \/ {MemoryFields, TimeField} \subseteq Sampled
               THEN IF Sampled \cap CloudMarkers # {} THEN S("cxone_sast") ELSE S("cxsast")
               ELSE IF ServiceMarker \in Sampled THEN S("cxsast")
               ELSE S("cxone")

\* C5 witness: a log with the engine fields, the service marker and the
\* product name, and no cloud marker, has been typed as cxsast.
C5_Witness ==
    /\ task = "detect"
    /\ input.markers = {EngineFields, ServiceMarker, S("CxOne")}
    /\ input.pad = 149
    /\ input.tail = {S("/app/Engine")}
    /\ Done("log_type")
    /\ out.log_type = S("cxsast")

(***************************************************************************)
(* Normalization: one log, detected, analyzed and normalized.              *)
(***************************************************************************)

MaxQueryLines == 3

\* A line of the engine grammar that ends the run of a query.
QueryFinished(name) ==
    EngineLine(S("INFO"), S("Queries"),
               S("Finish running query {Language: Java, PackageTypeName: Cx, GroupName: G, QueryName: ")
                   \o name \o S("}"))

QueryLogLines ==
    {QueryFinished(S("Q1")),
     QueryFinished(S("Q2")),
     S("----General Queries Summary----"),
     S("Java.Q1 success 5 00:00:01"),
     S("Java.Q2 failure 0 00:00:02")}

\* The empty lines before the lines of the log: none, or as many as the
\* detector samples.
QueryPads == {0, SampleLines}

\* The log of pad empty lines and the lines ls.
PaddedLog(pad, ls) == [i \in 1..pad |-> "\n"] \o Join(ls, S("\n"))

InitNormalize ==
    /\ task = "normalize"
    /\ input \in [pad : QueryPads, lines : SeqsUpTo(QueryLogLines, MaxQueryLines)]
    /\ out = EmptyDict

\* analyze_and_normalize(content)
AnalyzeAndNormalize ==
    /\ task = "normalize"
    /\ ~Done("normalized")
    /\ LET content == PaddedLog(input.pad, input.lines)
       IN  \E listed \in ListsOf(files_of(content)), files \in ListsOf(files_of(content)) :
               out' = Put(out, "normalized", analyze_and_normalize(content, listed, files))
    /\ UNCHANGED <<task, input>>

NextNormalize == AnalyzeAndNormalize

SpecNormalize == InitNormalize /\ [][NextNormalize]_vars

(***************************************************************************)
(* Normalization properties.                                               *)
(***************************************************************************)

\* C10: the keys of the normalized query map are language.name for the
\* query records of an engine-format analysis and language.group.name for
\* those of a generic-format analysis, so that two generic records with
\* different query names get different keys.
C10_QueryKeys ==
    Done("normalized") =>
        LET lines == Split(PaddedLog(input.pad, input.lines), "\n")
        IN  DOMAIN out.normalized.queries =
                IF out.normalized.log_type = S("CxOne")
                THEN {q.language \o S(".") \o q.group \o S(".") \o q.query :
                        q \in Range(analyze_log_loop(lines).queries_run)}
                ELSE {q.language \o S(".") \o q.name : q \in Range(extract_queries(lines))}

(***************************************************************************)
(* Comparison: two normalized analyses, compared both ways and rendered.   *)
(***************************************************************************)

MaxFiles == 2

\* Two files of one name in different directories, and one of another name.
FilePaths == {S("src/a.js"), S("lib/a.js"), S("b.js")}

\* The lists the analyzers make of their file sets.
FileLists == {l \in SeqsUpTo(FilePaths, MaxFiles) : Cardinality(Range(l)) = Len(l)}

\* A query record of the SAST analyzer.
QueryRecord(language, name, results) ==
    [language |-> language, name |-> name, status |-> S("success"),
     results |-> results, duration |-> S("00:00:01")]

QueryLists ==
    {first \o second :
        first \in {<<>>, <<QueryRecord(S("Java"), S("Q1"), 0)>>,
                   <<QueryRecord(S("Java"), S("Q1"), 3)>>},
        second \in {<<>>, <<QueryRecord(S("Python"), S("SqlInjection"), 10)>>,
                    <<QueryRecord(S("Python"), S("SqlInjection"), 25)>>,
                    <<QueryRecord(S("Python"), S("SqlInjection"), 13)>>}}

\* An analysis of the SAST analyzer with these files and queries.
SastAnalysis(files, queries) ==
    [total_lines |-> 100 * Len(files) + Len(queries),
     scan_info |-> [is_incremental |-> FALSE, incremental_files_changed |-> None,
                    incremental_skipped |-> FALSE],
     languages |-> EmptyDict,
     total_loc |-> 100 * Len(files),
     scanned_loc |-> 100 * Len(files),
     phases |-> <<>>,
     queries |-> queries,
     queries_by_language |-> FoldLeft(by_language_step, EmptyDict, queries),
     successful_queries |-> Len(queries),
     failed_queries |-> 0,
     query_totals |-> [total_results |-> Sum([i \in DOMAIN queries |-> queries[i].results]),
                       total_query_time |-> S("00:00:01")],
     files_processed |-> files,
     errors |-> <<>>,
     warnings |-> <<>>,
     memory_timeline |-> <<>>,
     peak_memory |-> 250 + Len(queries),
     total_elapsed_time |-> S("00:00:01")]

\* The normalized analyses; the set of files iterates in the order of the list.
Norms ==
    {normalize_analysis(SastAnalysis(files, queries), S("cxsast"), files) :
        files \in FileLists, queries \in QueryLists}

\* The fields of the summary that the comparison table gives a Diff for.
NumericFields ==
    {"files_count", "queries_count", "total_results", "loc", "peak_memory", "errors_count"}

InitCompare ==
    /\ task = "compare"
    /\ input \in [a : Norms, b : Norms]
    /\ out = EmptyDict

\* compare_logs(a, b)
CompareLogs ==
    /\ task = "compare"
    /\ ~Done("comparison")
    /\ \E both \in ListsOf(DOMAIN input.a.queries \cap DOMAIN input.b.queries) :
           out' = Put(out, "comparison", compare_logs(input.a, input.b, both))
    /\ UNCHANGED <<task, input>>

\* compare_logs(b, a)
CompareSwapped ==
    /\ task = "compare"
    /\ ~Done("swapped")
    /\ \E both \in ListsOf(DOMAIN input.b.queries \cap DOMAIN input.a.queries) :
           out' = Put(out, "swapped", compare_logs(input.b, input.a, both))
    /\ UNCHANGED <<task, input>>

\* The Diff column render_comparison_summary makes of a summary.
DiffColumn(summary) ==
    [f \in NumericFields |-> calc_diff(summary[f][1], summary[f][2])]

\* render_comparison_summary(comparison, a, b)
RenderSummary ==
    /\ task = "compare"
    /\ Done("comparison")
    /\ ~Done("diffs")
    /\ out' = Put(out, "diffs", DiffColumn(out.comparison.summary))
    /\ UNCHANGED <<task, input>>

\* render_comparison_summary(comparison, b, a) of the swapped comparison
RenderSwapped ==
    /\ task = "compare"
    /\ Done("swapped")
    /\ ~Done("swapped_diffs")
    /\ out' = Put(out, "swapped_diffs", DiffColumn(out.swapped.summary))
    /\ UNCHANGED <<task, input>>

NextCompare == CompareLogs \/ CompareSwapped \/ RenderSummary \/ RenderSwapped

SpecCompare == InitCompare /\ [][NextCompare]_vars

(***************************************************************************)
(* Comparison properties.                                                  *)
(***************************************************************************)

SignedText(n) ==
    IF n = 0 THEN S("=")
    ELSE IF n > 0 THEN S("+") \o Format(n)
    ELSE S("-") \o Format(0 - n)

C7_FilesDiffSymmetric ==
    (Done("comparison") /\ Done("swapped")) =>
        /\ out.comparison.files_diff.only_in_1 = out.swapped.files_diff.only_in_2
        /\ out.comparison.files_diff.only_in_2 = out.swapped.files_diff.only_in_1

\* C7 witness: two files of different names have been compared both ways
\* with a file that shares the name of one of them.
C7_Witness ==
    /\ task = "compare"
    /\ input.a.files = <<S("src/a.js"), S("b.js")>>
    /\ input.b.files = <<S("lib/a.js")>>
    /\ Done("comparison") /\ Done("swapped")
    /\ out.comparison.files_diff.only_in_1 = <<S("b.js")>>
    /\ out.swapped.files_diff.only_in_2 = <<S("b.js")>>
    /\ out.comparison.files_diff.in_both = <<S("src/a.js")>>
    /\ out.swapped.files_diff.in_both = <<S("lib/a.js")>>

(***************************************************************************)
(* Scan mode: one scan info, normalized by each branch.                    *)
(***************************************************************************)

MaxChanged == 12

\* The three incremental flags as the extractors leave them: a scan counts
\* as skipped only after a line reported a count.
ScanFlags ==
    {flags \in [is_incremental : BOOLEAN,
                incremental_files_changed : {None} \cup {Some(n) : n \in 0..MaxChanged},
                incremental_skipped : BOOLEAN] :
        flags.incremental_skipped => flags.incremental_files_changed # None}

InitMode ==
    /\ task = "mode"
    /\ input \in ScanFlags
    /\ out = EmptyDict

\* normalize_analysis of a SAST analysis with this scan info, for either
\* engine-format type
NormalizeEngine ==
    /\ task = "mode"
    /\ ~Done("engine")
    /\ \E log_type \in {S("cxsast"), S("cxone_sast")} :
           out' = Put(out, "engine",
                      normalize_analysis([SastAnalysis(<<>>, <<>>) EXCEPT !.scan_info = input],
                                         log_type, <<>>))
    /\ UNCHANGED <<task, input>>

\* normalize_analysis of a source-engine analysis with this scan info
NormalizeGeneric ==
    /\ task = "mode"
    /\ ~Done("generic")
    /\ out' = Put(out, "generic",
                  normalize_analysis([analyze_log(<<>>, <<>>) EXCEPT !.scan_info = input],
                                     S("cxone"), <<>>))
    /\ UNCHANGED <<task, input>>

NextMode == NormalizeEngine \/ NormalizeGeneric

SpecMode == InitMode /\ [][NextMode]_vars

(***************************************************************************)
(* Scan mode properties.                                                   *)
(***************************************************************************)

\* The label of three flags: skipped before incremental with a count before
\* incremental before full.
ScanModeLabel(flags) ==
    CASE flags.incremental_skipped -> S("Incremental (Skipped - 0 changes)")
      [] /\ ~flags.incremental_skipped
         /\ flags.is_incremental
         /\ flags.incremental_files_changed # None ->
             S("Incremental (") \o Format(flags.incremental_files_changed[1])
                 \o S(" files changed)")
      [] /\ ~flags.incremental_skipped
         /\ flags.is_incremental
         /\ flags.incremental_files_changed = None -> S("Incremental")
      [] OTHER -> S("Full Scan")

\* C11: the scan mode of a normalized analysis is the label of its three
\* incremental flags, skipped before incremental with a count before
\* incremental before full, and the engine branch and the generic branch of
\* normalize_analysis give the same label for the same flags.
C11_ScanModeLabel ==
    /\ \A k \in {"engine", "generic"} :
           Done(k) => out[k].scan_mode = ScanModeLabel(input)
    /\ (Done("engine") /\ Done("generic")) =>
           out.engine.scan_mode = out.generic.scan_mode

\* C11 witness: flags of an incremental scan of 12 changed files, not
\* skipped, have been normalized by both branches.
C11_Witness ==
    /\ task = "mode"
    /\ input = [is_incremental |-> TRUE, incremental_files_changed |-> Some(12),
                incremental_skipped |-> FALSE]
    /\ Done("engine") /\ Done("generic")
    /\ out.engine.scan_mode = S("Incremental (12 files changed)")
    /\ out.generic.scan_mode = S("Incremental (12 files changed)")

\* The records of results_changed that a comparison of the query maps q1
\* and q2 has to hold: one for each key of both with different results.
ChangedRecords(q1, q2) ==
    {[name |-> k, results_1 |-> q1[k].results, results_2 |-> q2[k].results,
      diff |-> q2[k].results - q1[k].results] :
        k \in {c \in DOMAIN q1 \cap DOMAIN q2 : q1[c].results # q2[c].results}}

\* rc lists every record of the set once, the larger |diff| first.
ListsByDiff(rc, records) ==
    /\ Range(rc) = records
    /\ Len(rc) = Cardinality(records)
    /\ \A i, j \in DOMAIN rc : i < j => Abs(rc[i].diff) >= Abs(rc[j].diff)

\* C12: results_changed of a comparison holds exactly one record of name,
\* results_1, results_2 and diff = results_2 - results_1 for each query key
\* of both maps whose results differ, and no other, ordered by |diff|
\* non-increasing; the same for the swapped comparison.
C12_ResultsChanged ==
    /\ Done("comparison") =>
           ListsByDiff(out.comparison.queries_diff.results_changed,
                       ChangedRecords(input.a.queries, input.b.queries))
    /\ Done("swapped") =>
           ListsByDiff(out.swapped.queries_diff.results_changed,
                       ChangedRecords(input.b.queries, input.a.queries))

\* C12 witness: queries of 0 and 10 results have been compared both ways
\* with the same queries of 3 and 25 results; the record of diff 15 comes
\* before the record of diff 3, and -15 before -3 in the swapped comparison.
C12_Witness ==
    /\ task = "compare"
    /\ Done("comparison") /\ Done("swapped")
    /\ out.comparison.queries_diff.results_changed
           = <<[name |-> S("Python.SqlInjection"), results_1 |-> 10, results_2 |-> 25,
                diff |-> 15],
               [name |-> S("Java.Q1"), results_1 |-> 0, results_2 |-> 3, diff |-> 3]>>
    /\ out.swapped.queries_diff.results_changed
           = <<[name |-> S("Python.SqlInjection"), results_1 |-> 25, results_2 |-> 10,
                diff |-> 0 - 15],
               [name |-> S("Java.Q1"), results_1 |-> 3, results_2 |-> 0, diff |-> 0 - 3]>>

\* The last segment of a path: what follows its last slash or backslash.
LastSegment(path) ==
    From(path, Max({0} \cup {i \in DOMAIN path : path[i] \in {"/", "\\"}}) + 1)

\* The last segments of the paths of a list.
SegmentsOf(files) == {LastSegment(files[i]) : i \in DOMAIN files}

\* C13 as stated: a path of the first side is under in_both exactly when the
\* second side holds a path of the same last segment, and under only_in_1
\* only when the second side holds none; every entry is a path of the side
\* it is reported for.
C13_EveryPathByBasename ==
    Done("comparison") =>
        LET fd == out.comparison.files_diff
        IN  /\ \A p \in Range(input.a.files) :
                   /\ p \in Range(fd.in_both) <=> LastSegment(p) \in SegmentsOf(input.b.files)
                   /\ p \in Range(fd.only_in_1) => LastSegment(p) \notin SegmentsOf(input.b.files)
            /\ Range(fd.in_both) \subseteq Range(input.a.files)
            /\ Range(fd.only_in_1) \subseteq Range(input.a.files)
            /\ Range(fd.only_in_2) \subseteq Range(input.b.files)

\* The path of a side that stands for a last segment: the last of that
\* segment in the order the file set of the side iterates.
KeptPath(files, segment) ==
    files[Max({i \in DOMAIN files : LastSegment(files[i]) = segment})]

\* listed holds one path for each of the segments and no other: the kept one.
OnePathEach(listed, files, segments) ==
    /\ Len(listed) = Cardinality(segments)
    /\ Range(listed) = {KeptPath(files, n) : n \in segments}

\* C13 amended: files are matched by last segment, one path for each
\* segment: in_both holds, for each segment that both sides have, the one
\* path of the first side kept for it; only_in_1 and only_in_2 hold, for
\* each segment that only one side has, the one path of that side kept for
\* it; a path that shares its segment with another path of its side and is
\* not the kept one is reported nowhere.
C13_OnePathPerBasename ==
    Done("comparison") =>
        LET fd == out.comparison.files_diff
            A == SegmentsOf(input.a.files)
            B == SegmentsOf(input.b.files)
        IN  /\ OnePathEach(fd.in_both, input.a.files, A \cap B)
            /\ OnePathEach(fd.only_in_1, input.a.files, A \ B)
            /\ OnePathEach(fd.only_in_2, input.b.files, B \ A)

\* C13 witness: two files of one name in two directories have been compared
\* with a file of that name and a file of another name: one path stands for
\* the shared name, and the other path of that name is reported nowhere.
C13_Witness ==
    /\ task = "compare"
    /\ input.a.files = <<S("src/a.js"), S("lib/a.js")>>
    /\ input.b.files = <<S("src/a.js"), S("b.js")>>
    /\ Done("comparison")
    /\ out.comparison.files_diff.in_both = <<S("lib/a.js")>>
    /\ out.comparison.files_diff.only_in_1 = <<>>
    /\ out.comparison.files_diff.only_in_2 = <<S("b.js")>>

(***************************************************************************)
(* Queries summary: the query lines of one log, inside and outside blocks. *)
(***************************************************************************)

MaxSummaryLines == 5

\* The two marker lines, two lines of the query shape and a line of another.
SummaryLines ==
    {S("-----General Queries Summary-----Status-----"),
     S("-----End General Queries Summary-----"),
     S("Java.Q1_4f  success  3  00:00:01.5"),
     S("  Python.Q2  failure 0 00:00:02"),
     S("Total: 3 00:00:03")}

InitSummary ==
    /\ task = "summary"
    /\ input \in SeqsUpTo(SummaryLines, MaxSummaryLines)
    /\ out = EmptyDict

\* extract_queries(lines)
ExtractQueries ==
    /\ task = "summary"
    /\ ~Done("queries")
    /\ out' = Put(out, "queries", extract_queries(input))
    /\ UNCHANGED <<task, input>>

NextSummary == ExtractQueries

SpecSummary == InitSummary /\ [][NextSummary]_vars

(***************************************************************************)
(* Queries summary properties.                                             *)
(***************************************************************************)

\* The line ends a block; else, the line starts one.
IsEndMarker(line) == Contains(line, S("End General Queries Summary"))

IsStartMarker(line) == Contains(line, S("General Queries Summary")) /\ ~IsEndMarker(line)

\* Line i lies inside a block: it is no marker, a start marker comes before
\* it, and no end marker lies between the two.
InsideBlock(lines, i) ==
    /\ ~IsStartMarker(lines[i]) /\ ~IsEndMarker(lines[i])
    /\ \E j \in 1..(i - 1) :
           /\ IsStartMarker(lines[j])
           /\ \A k \in (j + 1)..(i - 1) : ~IsEndMarker(lines[k])

RECURSIVE RecordsInside(_, _)
\* The records of the query-shaped lines inside a block, from line i on.
RecordsInside(lines, i) ==
    IF i > Len(lines) THEN <<>>
    ELSE (IF InsideBlock(lines, i) /\ QueryLineMatch(Strip(lines[i])) # None
          THEN <<QueryLineMatch(Strip(lines[i]))[1]>> ELSE <<>>)
         \o RecordsInside(lines, i + 1)

\* C14: extract_queries records a query-shaped line if and only if it lies
\* inside a General Queries Summary block: the list holds the records of
\* the query-shaped lines inside blocks, in their order, and no other; a
\* log without a block gives the empty list.
C14_OnlyInsideBlock ==
    Done("queries") =>
        /\ out.queries = RecordsInside(input, 1)
        /\ (\A i \in DOMAIN input : ~IsStartMarker(input[i])) => out.queries = <<>>

\* C14 witness: of a query line before a block, one inside it and one after
\* its end marker, the one inside has been recorded and no other.
C14_Witness ==
    /\ task = "summary"
    /\ input = <<S("Java.Q1_4f  success  3  00:00:01.5"),
                 S("-----General Queries Summary-----Status-----"),
                 S("  Python.Q2  failure 0 00:00:02"),
                 S("-----End General Queries Summary-----"),
                 S("Java.Q1_4f  success  3  00:00:01.5")>>
    /\ Done("queries")
    /\ out.queries = <<[language |-> S("Python"), name |-> S("Q2"),
                        status |-> S("failure"), results |-> 0,
                        duration |-> S("00:00:02")]>>

(***************************************************************************)
(* Error samples: two analyses with errors, compared.                      *)
(***************************************************************************)

MaxErrors == 11

\* The message of the i-th error of a log: short, or of 97 + i characters,
\* so that the messages of a log are shorter than, as long as and longer
\* than what the comparison shows.
ErrorMessage(i, long) ==
    Format(i) \o S(":")
        \o [j \in 1..(IF long THEN 97 + i - Len(Format(i)) - 1 ELSE 0) |-> "x"]

\* The error records the SAST analyzer makes of a log of n error lines.
ErrorsOf(n, long) ==
    [i \in 1..n |->
        parse_sast_log_line(EngineLine(S("ERROR"), S("Queries"), ErrorMessage(i, long)))[1]]

\* The normalized analysis of a log of n error lines.
NormWithErrors(n, long) ==
    normalize_analysis([SastAnalysis(<<>>, <<>>) EXCEPT !.errors = ErrorsOf(n, long)],
                       S("cxsast"), <<>>)

InitErrors ==
    /\ task = "errors"
    /\ input \in {[a |-> NormWithErrors(n1, long1), b |-> NormWithErrors(n2, long2)] :
                     n1 \in 0..MaxErrors, long1 \in BOOLEAN,
                     n2 \in 0..MaxErrors, long2 \in BOOLEAN}
    /\ out = EmptyDict

\* compare_logs(a, b) of the two analyses
CompareErrors ==
    /\ task = "errors"
    /\ ~Done("comparison")
    /\ out' = Put(out, "comparison", compare_logs(input.a, input.b, <<>>))
    /\ UNCHANGED <<task, input>>

NextErrors == CompareErrors

SpecErrors == InitErrors /\ [][NextErrors]_vars

(***************************************************************************)
(* Error sample properties.                                                *)
(***************************************************************************)

\* shown lists the messages of the first 10 of the errors, in their order,
\* each cut to its first 100 characters.
FirstTenCut(shown, errors) ==
    /\ Len(shown) = Min({10, Len(errors)})
    /\ \A i \in DOMAIN shown :
           /\ Len(shown[i]) = Min({100, Len(errors[i].message)})
           /\ \A j \in DOMAIN shown[i] : shown[i][j] = errors[i].message[j]

\* C15: errors_diff holds for each side the messages of the first 10 error
\* records of that side in their order, each cut to at most 100 characters:
\* min(10, number of errors) entries.
C15_ErrorSamples ==
    Done("comparison") =>
        /\ FirstTenCut(out.comparison.errors_diff.errors_1, input.a.errors)
        /\ FirstTenCut(out.comparison.errors_diff.errors_2, input.b.errors)

\* C15 witness: an analysis of 11 errors with messages of 98 to 108
\* characters has been compared with one of 3 errors with short messages:
\* 10 messages are shown for the first, the last of them cut from 107
\* characters to 100, and 3 for the second.
C15_Witness ==
    /\ task = "errors"
    /\ input.a.errors_count = 11 /\ input.b.errors_count = 3
    /\ Len(input.a.errors[10].message) = 107
    /\ Done("comparison")
    /\ Len(out.comparison.errors_diff.errors_1) = 10
    /\ Len(out.comparison.errors_diff.errors_1[10]) = 100
    /\ out.comparison.errors_diff.errors_1[1] = input.a.errors[1].message
    /\ out.comparison.errors_diff.errors_2 = <<S("1:"), S("2:"), S("3:")>>

(***************************************************************************)
(* Unparseable lines: one log, analyzed without and with an inserted line. *)
(***************************************************************************)

MaxInsertLines == 2

\* The lines of the log: each is parsed by one of the two analyzers.
InsertLogLines ==
    {EngineLine(S("ERROR"), S("Queries"), S("boom")),
     EngineLine(S("INFO"), S("Parse"), S("Finished processing file: src/a.js")),
     DastLine(S("ERROR"), S("boom"))}

\* Lines that fail the grammar of both analyzers: an empty line, a line of
\* a stack trace, a line without its timestamp, and a rule report without
\* its prefix whose duration is no number.
UnparsedLines ==
    {<<>>,
     S("   at com.example.Scan.run(Scan.java:42)"),
     S("ERROR [Parse] - Finished processing file: src/b.js"),
     S("completed host/plugin | XSS in 1.2.3s with 5 message(s) sent and 0 alert(s) raised")}

\* lines with line put after its first `at` lines
InsertLine(lines, at, line) ==
    SubSeq(lines, 1, at) \o <<line>> \o SubSeq(lines, at + 1, Len(lines))

InitInsert ==
    /\ task = "insert"
    /\ input \in {[lines |-> ls, with |-> InsertLine(ls, Min({at, Len(ls)}), line)] :
                     ls \in SeqsUpTo(InsertLogLines, MaxInsertLines) \ {<<>>},
                     at \in 0..MaxInsertLines,
                     line \in UnparsedLines}
    /\ out = EmptyDict

\* analyze_log of the log without the inserted line
AnalyzeWithout ==
    /\ task = "insert"
    /\ ~Done("without")
    /\ \E files \in ListsOf(analyze_log_loop(input.lines).files_processed) :
           out' = Put(out, "without", analyze_log(Join(input.lines, S("\n")), files))
    /\ UNCHANGED <<task, input>>

\* analyze_log of the log with the inserted line
AnalyzeWith ==
    /\ task = "insert"
    /\ ~Done("with")
    /\ \E files \in ListsOf(analyze_log_loop(input.with).files_processed) :
           out' = Put(out, "with", analyze_log(Join(input.with, S("\n")), files))
    /\ UNCHANGED <<task, input>>

\* analyze_dast_log of the log without the inserted line
AnalyzeDastWithout ==
    /\ task = "insert"
    /\ ~Done("dast_without")
    /\ out' = Put(out, "dast_without", analyze_dast_log(Join(input.lines, S("\n"))))
    /\ UNCHANGED <<task, input>>

\* analyze_dast_log of the log with the inserted line
AnalyzeDastWith ==
    /\ task = "insert"
    /\ ~Done("dast_with")
    /\ out' = Put(out, "dast_with", analyze_dast_log(Join(input.with, S("\n"))))
    /\ UNCHANGED <<task, input>>

NextInsert == AnalyzeWithout \/ AnalyzeWith \/ AnalyzeDastWithout \/ AnalyzeDastWith

SpecInsert == InitInsert /\ [][NextInsert]_vars

(***************************************************************************)
(* Unparseable line properties.                                            *)
(***************************************************************************)

\* C16: a line that fails the line grammar never aborts the analysis and
\* stays out of the structured records: with such a line inserted into a
\* log, analyze_log counts one line more and gives the same parsed_lines,
\* errors, warnings, queries_run, files_processed (as a set), phases and
\* memory_timeline, and analyze_dast_log completes, counts one line more
\* and gives the same parsed_lines, errors and warnings.
C16_UnparsedLineIsLocal ==
    /\ (Done("without") /\ Done("with")) =>
           /\ out["with"].total_lines = out.without.total_lines + 1
           /\ \A f \in {"parsed_lines", "errors", "warnings", "queries_run",
                        "phases", "memory_timeline"} :
                  out["with"][f] = out.without[f]
           /\ Range(out["with"].files_processed) = Range(out.without.files_processed)
    /\ (Done("dast_without") /\ Done("dast_with") /\ ~out.dast_without.raised) =>
           /\ ~out.dast_with.raised
           /\ out.dast_with.total_lines = out.dast_without.total_lines + 1
           /\ \A f \in {"parsed_lines", "errors", "warnings"} :
                  out.dast_with[f] = out.dast_without[f]

(***************************************************************************)
(* Concurrent analyses: two threads, each analyzing, normalizing and       *)
(* comparing its own log, their steps interleaved.                         *)
(***************************************************************************)

MaxThreadLines == 1

Threads == {"t1", "t2"}

ThreadLogLines ==
    {EngineLine(S("ERROR"), S("Queries"), S("boom")),
     EngineLine(S("INFO"), S("Parse"), S("Finished processing file: src/a.js"))}

ThreadLogs == {Join(ls, S("\n")) : ls \in SeqsUpTo(ThreadLogLines, MaxThreadLines)}

\* The analysis a thread compares its own with.
Baseline ==
    normalize_analysis(SastAnalysis(<<S("lib/a.js")>>, <<>>), S("cxsast"), <<S("lib/a.js")>>)

\* The frame of a thread before its first step.
FrameAtStart ==
    [pc |-> "start", lines |-> None, i |-> 1, acc |-> None, files |-> None,
     analysis |-> None, norm |-> None, comparison |-> None]

\* Each thread runs the source-engine analyzer or the SAST analyzer on a log
\* of its own; the threads are alike, so the first has the shorter log.
InitThreads ==
    /\ task = "threads"
    /\ input \in {jobs \in [Threads -> [analyzer : {"engine", "sast"}, content : ThreadLogs]] :
                     Len(jobs["t1"].content) < Len(jobs["t2"].content)}
    /\ out = [t \in Threads |-> FrameAtStart]

\* The log type the thread normalizes its analysis as.
LogTypeOf(t) == IF input[t].analyzer = "sast" THEN S("cxsast") ELSE S("cxone")

\* lines = content.split('\n') and the empty collections of the analyzer
SplitContent ==
    /\ task = "threads"
    /\ \E t \in Threads :
           /\ locals(out, t).pc = "start"
           /\ out' = [out EXCEPT ![t] =
                         [@ EXCEPT !.pc = IF input[t].analyzer = "sast" THEN "files" ELSE "loop",
                                   !.lines = Split(input[t].content, "\n"),
                                   !.acc = analyze_log_start]]
    /\ UNCHANGED <<task, input>>

\* One pass of the loop of analyze_log over the lines.
LoopStep ==
    /\ task = "threads"
    /\ \E t \in Threads :
           /\ locals(out, t).pc = "loop"
           /\ locals(out, t).i <= Len(locals(out, t).lines)
           /\ out' = [out EXCEPT ![t] =
                         [@ EXCEPT !.acc = analyze_log_step(locals(out, t).acc,
                                                            locals(out, t).lines[locals(out, t).i]),
                                   !.i = locals(out, t).i + 1]]
    /\ UNCHANGED <<task, input>>

\* The return of analyze_log after the loop.
ReturnAnalysis ==
    /\ task = "threads"
    /\ \E t \in Threads :
           /\ locals(out, t).pc = "loop"
           /\ locals(out, t).i > Len(locals(out, t).lines)
           /\ \E files \in ListsOf(locals(out, t).acc.files_processed) :
                  out' = [out EXCEPT ![t] =
                             [@ EXCEPT !.pc = "normalize",
                                       !.analysis =
                                           analyze_log_result(locals(out, t).lines,
                                                              locals(out, t).acc, files)]]
    /\ UNCHANGED <<task, input>>

\* files_processed = extract_files_processed(lines) in analyze_sast_log
SastFiles ==
    /\ task = "threads"
    /\ \E t \in Threads :
           /\ locals(out, t).pc = "files"
           /\ \E files \in ListsOf(extract_files_processed(locals(out, t).lines)) :
                  out' = [out EXCEPT ![t] = [@ EXCEPT !.pc = "analyze", !.files = files]]
    /\ UNCHANGED <<task, input>>

\* The other extractions of analyze_sast_log and its return.
SastAnalyze ==
    /\ task = "threads"
    /\ \E t \in Threads :
           /\ locals(out, t).pc = "analyze"
           /\ out' = [out EXCEPT ![t] =
                         [@ EXCEPT !.pc = "normalize",
                                   !.analysis =
                                       analyze_sast_log(Join(locals(out, t).lines, S("\n")),
                                                        locals(out, t).files)]]
    /\ UNCHANGED <<task, input>>

\* normalize_analysis(analysis, log_type)
NormalizeOwn ==
    /\ task = "threads"
    /\ \E t \in Threads :
           /\ locals(out, t).pc = "normalize"
           /\ \E files \in ListsOf(Range(locals(out, t).analysis.files_processed)) :
                  out' = [out EXCEPT ![t] =
                             [@ EXCEPT !.pc = "compare",
                                       !.norm = normalize_analysis(locals(out, t).analysis,
                                                                   LogTypeOf(t), files)]]
    /\ UNCHANGED <<task, input>>

\* compare_logs(norm, baseline)
CompareOwn ==
    /\ task = "threads"
    /\ \E t \in Threads :
           /\ locals(out, t).pc = "compare"
           /\ \E both \in ListsOf(DOMAIN locals(out, t).norm.queries \cap DOMAIN Baseline.queries) :
                  out' = [out EXCEPT ![t] =
                             [@ EXCEPT !.pc = "done",
                                       !.comparison =
                                           compare_logs(locals(out, t).norm, Baseline, both)]]
    /\ UNCHANGED <<task, input>>

NextThreads ==
    \/ SplitContent \/ LoopStep \/ ReturnAnalysis \/ SastFiles \/ SastAnalyze
    \/ NormalizeOwn \/ CompareOwn

SpecThreads == InitThreads /\ [][NextThreads]_vars

(***************************************************************************)
(* Concurrency properties.                                                 *)
(***************************************************************************)

\* What the analyzer of a thread returns for its log when run alone, with
\* the files listed in the given order.
AnalysisAlone(t, files) ==
    IF input[t].analyzer = "sast"
    THEN analyze_sast_log(input[t].content, files)
    ELSE analyze_log(input[t].content, files)

\* C17: however the steps of the two threads interleave, each thread holds,
\* once it has them, the analysis, the normalized analysis and the
\* comparison that the same calls return for its log when run alone, and
\* the analysis and the normalized analysis it passed on are still the ones
\* it passed.
C17_Isolated ==
    LET compared(frame, norm) ==
            frame.pc = "done" => frame.comparison = compare_logs(norm, Baseline, <<>>)
        normalized(t, frame, analysis) ==
            frame.pc \in {"compare", "done"} =>
                /\ frame.norm = normalize_analysis(analysis, LogTypeOf(t), frame.norm.files)
                /\ compared(frame, frame.norm)
        analyzed(t, frame) ==
            frame.pc \in {"normalize", "compare", "done"} =>
                /\ frame.analysis = AnalysisAlone(t, frame.analysis.files_processed)
                /\ normalized(t, frame, frame.analysis)
    IN  task = "threads" => \A t \in Threads : analyzed(t, out[t])

\* C17 witness: the first thread, on the source-engine analyzer, is in the
\* middle of its loop while the second, on the SAST analyzer with another
\* log, has finished with a comparison.
C17_Witness ==
    /\ task = "threads"
    /\ input["t1"].analyzer = "engine" /\ input["t2"].analyzer = "sast"
    /\ input["t1"].content # <<>> /\ input["t2"].content # <<>>
    /\ out["t1"].pc = "loop" /\ out["t1"].i = 1
    /\ out["t2"].pc = "done"
    /\ out["t2"].comparison.summary.files_count = <<1, 1>>
    /\ out["t2"].comparison.files_diff.in_both = <<S("src/a.js")>>

(***************************************************************************)
(* Query messages: one log of query lines of the two message shapes.       *)
(***************************************************************************)

MaxShapeLines == 2

\* A message that carries the structured tag of a query after a lead.
TaggedMessage(lead, name) ==
    lead \o S(" {Language: Java, PackageTypeName: Cx, GroupName: G, QueryName: ")
         \o name \o S("}")

\* A message that names a query by its dotted path after a lead.
DottedMessage(lead, name) == lead \o S(" Java.Cx.G.") \o name

\* The record of the query of that name.
QueryOf(name) ==
    [language |-> S("Java"), package |-> S("Cx"), group |-> S("G"), query |-> name]

ShapeLines ==
    {EngineLine(S("INFO"), S("Queries"), TaggedMessage(S("Finish running query"), S("A"))),
     EngineLine(S("INFO"), S("Queries"), DottedMessage(S("Begin running query"), S("B"))),
     EngineLine(S("INFO"), S("Queries"), TaggedMessage(S("Begin running query"), S("C"))),
     EngineLine(S("INFO"), S("Parse"), TaggedMessage(S("Finish running query"), S("D"))),
     EngineLine(S("INFO"), S("Queries"), DottedMessage(S("Finish running query"), S("E")))}

InitShapes ==
    /\ task = "shapes"
    /\ input \in {Join(ls, S("\n")) : ls \in SeqsUpTo(ShapeLines, MaxShapeLines)}
    /\ out = EmptyDict

\* analyze_log(content); no line names a file
AnalyzeQueryLines ==
    /\ task = "shapes"
    /\ ~Done("analysis")
    /\ out' = Put(out, "analysis", analyze_log(input, <<>>))
    /\ UNCHANGED <<task, input>>

\* parse_query_info(message) for the message of each line that parses
ParseQueryMessages ==
    /\ task = "shapes"
    /\ ~Done("infos")
    /\ out' = Put(out, "infos",
                  LET parsed == analyze_log_loop(Split(input, "\n")).parsed_lines
                  IN  [i \in DOMAIN parsed |-> parse_query_info(parsed[i].message)])
    /\ UNCHANGED <<task, input>>

NextShapes == AnalyzeQueryLines \/ ParseQueryMessages

SpecShapes == InitShapes /\ [][NextShapes]_vars

(***************************************************************************)
(* Query message properties.                                               *)
(***************************************************************************)

\* The log holds the line of that phase and message.
HasLine(phase, message) ==
    \E line \in Range(Split(input, "\n")) : line = EngineLine(S("INFO"), phase, message)

\* C18: analyze_log records the query of a parsed line in phase Queries
\* for either message shape: for a message that carries the structured tag,
\* and for a message 'Begin running query L.P.G.Q'.
C18_BothShapes ==
    Done("analysis") =>
        /\ \A lead \in {S("Finish running query"), S("Begin running query")} :
               \A name \in {S("A"), S("C")} :
                   HasLine(S("Queries"), TaggedMessage(lead, name))
                       => QueryOf(name) \in Range(out.analysis.queries_run)
        /\ HasLine(S("Queries"), DottedMessage(S("Begin running query"), S("B")))
               => QueryOf(S("B")) \in Range(out.analysis.queries_run)

(***************************************************************************)
(* Scan fields: one log with several lines for one field of the metadata.  *)
(***************************************************************************)

MaxFieldLines == 2

\* Two lines that name the host, two that report the start of the scanner,
\* and the two lines of the final status.
HostLines == {S("HostName: build-1"), S("HostName: build-2")}

StartLines ==
    {S("ZAP 2.14.0 started with cores: 4 maxMemory: 6 GB"),
     S("ZAP 2.15.0 started with cores: 8 maxMemory: 2 GB")}

StatusLines == {S("Automation plan succeeded"), S("Automation plan failed")}

InitFields ==
    /\ task = "fields"
    /\ input \in SeqsUpTo(HostLines \cup StartLines \cup StatusLines, MaxFieldLines)
    /\ out = EmptyDict

\* extract_scan_info(lines) of the source-engine analyzer
ExtractFields ==
    /\ task = "fields"
    /\ ~Done("scan_info")
    /\ out' = Put(out, "scan_info", extract_scan_info(input))
    /\ UNCHANGED <<task, input>>

\* extract_sast_scan_info(lines) of the SAST analyzer
ExtractSastFields ==
    /\ task = "fields"
    /\ ~Done("sast_scan_info")
    /\ out' = Put(out, "sast_scan_info", extract_sast_scan_info(input))
    /\ UNCHANGED <<task, input>>

\* extract_dast_scan_info(lines) of the DAST analyzer
ExtractDastFields ==
    /\ task = "fields"
    /\ ~Done("dast_scan_info")
    /\ out' = Put(out, "dast_scan_info", extract_dast_scan_info(input))
    /\ UNCHANGED <<task, input>>

NextFields == ExtractFields \/ ExtractSastFields \/ ExtractDastFields

SpecFields == InitFields /\ [][NextFields]_vars

(***************************************************************************)
(* Scan field properties.                                                  *)
(***************************************************************************)

\* The first line of the log that is one of the given lines.
FirstOf(lines, given) == lines[Min({i \in DOMAIN lines : lines[i] \in given})]

\* The log holds one of the given lines.
Holds(lines, given) == \E i \in DOMAIN lines : lines[i] \in given

\* C19: of several lines that match the marker of a field, the first gives
\* the value: the hostname in the scan info of both engine extractors, and
\* the ZAP version, the cores, the maximal memory and the status in the scan
\* info of the DAST extractor.
C19_FirstMatchKept ==
    /\ \A k \in {"scan_info", "sast_scan_info"} :
           (Done(k) /\ Holds(input, HostLines)) =>
               out[k].hostname
                   = (IF FirstOf(input, HostLines) = S("HostName: build-1")
                      THEN S("build-1") ELSE S("build-2"))
    /\ (Done("dast_scan_info") /\ Holds(input, StartLines)) =>
           LET first == FirstOf(input, StartLines) = S("ZAP 2.14.0 started with cores: 4 maxMemory: 6 GB")
           IN  /\ out.dast_scan_info.zap_version = (IF first THEN S("2.14.0") ELSE S("2.15.0"))
               /\ out.dast_scan_info.cores = (IF first THEN S("4") ELSE S("8"))
               /\ out.dast_scan_info.max_memory = (IF first THEN S("6 GB") ELSE S("2 GB"))
    /\ (Done("dast_scan_info") /\ Holds(input, StatusLines)) =>
           out.dast_scan_info.status
               = (IF FirstOf(input, StatusLines) = S("Automation plan succeeded")
                  THEN S("Succeeded") ELSE S("Failed"))

(***************************************************************************)
(* Files-changed count: which report of a log the scan info keeps.         *)
(***************************************************************************)

\* The count that one line reports to the extractor whose result is out[k],
\* or None.  The source-engine extractor reads the count after "Incremental
\* Scan: number of files changed:"; the SAST extractor reads it too, and
\* after it the number before "changed files" on a line that names an
\* incremental scan.
ReportedCount(k, line) ==
    LET first == IF Contains(line, S("Incremental Scan: number of files changed:"))
                 THEN FilesChangedCount(line)
                 ELSE None
    IN  IF /\ k = "sast_scan_info"
           /\ Contains(Lower(line), S("changed files"))
           /\ Contains(Lower(line), S("incremental"))
           /\ ChangedFilesCount(line) # None
        THEN ChangedFilesCount(line)
        ELSE first

\* The positions of the lines that report a count.
ReportingLines(k, lines) == {i \in 1..Len(lines) : ReportedCount(k, lines[i]) # None}

\* The count of the last reporting line, or None without one.
LastReported(k, lines) ==
    LET last(at) == IF at = {} THEN None ELSE ReportedCount(k, lines[Max(at)])
    IN  last(ReportingLines(k, lines))

\* C20: after scanning a log, incremental_files_changed is the count of the
\* last line, in log order, that reports a files-changed count, and None
\* when no line reports one, in the scan info of both engine extractors.
C20_LastCountWins ==
    \A k \in {"scan_info", "sast_scan_info"} :
        (task = "scan" /\ Done(k)) =>
            out[k].incremental_files_changed = LastReported(k, Split(input, "\n"))

\* Both extractors scanned a log whose lines report 0 and then 5, and a log
\* line the SAST extractor alone reads in between: both keep the 5.
C20_Witness ==
    /\ task = "scan"
    /\ input = Join(<<S("Incremental Scan: number of files changed: 0."),
                      S("Incremental scan detected 3 changed files"),
                      S("Incremental Scan: number of files changed: 5.")>>, S("\n"))
    /\ Done("scan_info") /\ Done("sast_scan_info")
    /\ out.scan_info.incremental_files_changed = Some(5)
    /\ out.sast_scan_info.incremental_files_changed = Some(5)

(***************************************************************************)
(* Query totals: the loop of extract_query_totals, one line at a time.     *)
(***************************************************************************)

MaxTotalsLines == 3

\* Well-formed totals lines, totals lines whose count is no integer, totals
\* lines of fewer than three tokens, and a line that is no totals line.
TotalsLines ==
    {S("Total:  179  00:00:17.603  x"),
     S("  Total: 7 00:00:01"),
     S("Total: abc 00:00:05"),
     S("Total: 1.5 00:00:09 y"),
     S("Total: 12"),
     S("Results: 3 00:00:02")}

InitTotals ==
    /\ task = "totals"
    /\ input \in SeqsUpTo(TotalsLines, MaxTotalsLines)
    /\ out = EmptyDict

\* The defaults that extract_query_totals starts from.
TotalsStart ==
    /\ task = "totals"
    /\ ~Done("totals")
    /\ out' = [at |-> 0, totals |-> extract_query_totals(<<>>)]
    /\ UNCHANGED <<task, input>>

\* One pass of the loop of extract_query_totals over the next line.
TotalsStep ==
    /\ task = "totals"
    /\ Done("totals")
    /\ out.at < Len(input)
    /\ out' = [at |-> out.at + 1,
               totals |-> extract_query_totals_step(out.totals, input[out.at + 1])]
    /\ UNCHANGED <<task, input>>

NextTotals == TotalsStart \/ TotalsStep

SpecTotals == InitTotals /\ [][NextTotals]_vars

\* A totals line: its text starts with 'Total:' once stripped.
IsTotalsLine(line) == StartsAt(Strip(line), 1, S("Total:"))

\* A totals line of at least three tokens whose second token is an integer.
WellFormedTotals(line) ==
    /\ IsTotalsLine(line)
    /\ Len(Tokens(line, 1)) >= 3
    /\ PyInt(Tokens(line, 1)[2]) # None

\* The totals that the last well-formed totals line among the first n lines
\* gives, or the defaults without one.
TotalsOfLast(lines, n) ==
    LET of(parts) == [total_results |-> PyInt(parts[2])[1], total_query_time |-> parts[3]]
        last(at) == IF at = {}
                    THEN [total_results |-> 0, total_query_time |-> S("00:00:00")]
                    ELSE of(Tokens(lines[Max(at)], 1))
    IN  last({i \in 1..n : WellFormedTotals(lines[i])})

\* C21: a malformed totals line (second token no integer, or fewer than three
\* tokens) changes neither total_results nor total_query_time, and the lines
\* after it are still processed: after every pass of the loop the totals are
\* those of the last well-formed totals line read so far, and the defaults (0
\* and '00:00:00') when none was read.
C21_MalformedTotalsIgnored ==
    (task = "totals" /\ Done("totals")) => out.totals = TotalsOfLast(input, out.at)

\* A well-formed line, then a totals line with a non-integer count, then a
\* totals line of two tokens were read: the totals are still those of the
\* first line.
C21_Witness ==
    /\ task = "totals"
    /\ input = <<S("  Total: 7 00:00:01"), S("Total: abc 00:00:05"), S("Total: 12")>>
    /\ Done("totals")
    /\ out.at = 3
    /\ out.totals = [total_results |-> 7, total_query_time |-> S("00:00:01")]

(***************************************************************************)
(* File tracking: the files that each engine analyzer lists for one log.   *)
(***************************************************************************)

MaxTrackLines == 2

\* One file under two temp prefixes before a scan UUID, on lines of the
\* engine grammar and on lines that fail it, and a line without a path.
TrackLines ==
    {EngineLine(S("INFO"), S("Parse"),
                S("Started processing file: /tmp/x/") \o Uuid1 \o S("/src/a.py")),
     EngineLine(S("INFO"), S("Parse"),
                S("Finished processing file: C:\\t\\") \o Uuid1 \o S("\\src\\a.py")),
     EngineLine(S("INFO"), S("Parse"), S("Finished processing file: src/b.py")),
     S("Finished processing file: /y/") \o Uuid2 \o S("/src/a.py  "),
     S("Started processing file: src/c.py"),
     S("Finished processing file:  ")}

InitTrack ==
    /\ task = "track"
    /\ input \in {Join(ls, S("\n")) : ls \in SeqsUpTo(TrackLines, MaxTrackLines)}
    /\ out = EmptyDict

\* analyze_log(content) of the source-engine analyzer
TrackAnalyzeLog ==
    /\ task = "track"
    /\ ~Done("analysis")
    /\ LET run(lines, acc) ==
               \E files \in ListsOf(acc.files_processed) :
                   out' = Put(out, "analysis", analyze_log_result(lines, acc, files))
           split(lines) == run(lines, analyze_log_loop(lines))
       IN  split(Split(input, "\n"))
    /\ UNCHANGED <<task, input>>

\* extract_files_processed(lines) of the SAST analyzer: list(files)
TrackSastFiles ==
    /\ task = "track"
    /\ ~Done("sast_files")
    /\ \E files \in ListsOf(extract_files_processed(Split(input, "\n"))) :
           out' = Put(out, "sast_files", files)
    /\ UNCHANGED <<task, input>>

NextTrack == TrackAnalyzeLog \/ TrackSastFiles

SpecTrack == InitTrack /\ [][NextTrack]_vars

\* The text after the first occurrence of a marker, stripped.
AfterFirst(text, marker) ==
    Strip(From(text, Min(Occurrences(text, marker)) + Len(marker)))

\* The path that a line gives the SAST analyzer, <<>> when it gives none.
SastPathOf(line) ==
    IF Contains(line, S("Started processing file:"))
    THEN AfterFirst(line, S("Started processing file:"))
    ELSE IF Contains(line, S("Finished processing file:"))
    THEN AfterFirst(line, S("Finished processing file:"))
    ELSE <<>>

\* The path that a text with 'Finished processing file' gives the
\* source-engine analyzer, <<>> when it gives none.
EnginePathOf(text) ==
    IF Contains(text, S("Finished processing file")) /\ Contains(text, S("file: "))
    THEN AfterFirst(text, S("file: "))
    ELSE <<>>

\* The normalized forms of the paths of a set, but for the empty path.
NormalizedPaths(paths) == {normalize_filepath(p) : p \in paths \ {<<>>}}

\* No element of the list occurs twice.
NoDuplicates(list) == \A i, j \in DOMAIN list : list[i] = list[j] => i = j

\* C22 as stated: the files either analyzer lists are the normalized paths of
\* every line of the log that holds the marker with a path, each once.
C22_EveryLineTracked ==
    LET tracked(lines) ==
            /\ Done("analysis") =>
                   /\ NoDuplicates(out.analysis.files_processed)
                   /\ Range(out.analysis.files_processed)
                          = NormalizedPaths({EnginePathOf(lines[i]) : i \in DOMAIN lines})
            /\ Done("sast_files") =>
                   /\ NoDuplicates(out.sast_files)
                   /\ Range(out.sast_files)
                          = NormalizedPaths({SastPathOf(lines[i]) : i \in DOMAIN lines})
    IN  task = "track" => tracked(Split(input, "\n"))

\* The messages of the lines that the engine grammar parses.
ParsedMessages(lines) ==
    {parse_log_line(lines[i])[1].message :
        i \in {j \in DOMAIN lines : parse_log_line(lines[j]) # None}}

\* C22: the files the SAST analyzer lists are the normalized paths of every
\* line of the log that holds 'Started processing file:' or 'Finished
\* processing file:' with a path; the files the source-engine analyzer lists
\* are the normalized paths of every line that parses in the engine grammar
\* and whose message holds 'Finished processing file' with a path; a file
\* that several lines mention is listed once.
C22_ParsedLinesTracked ==
    LET tracked(lines) ==
            /\ Done("analysis") =>
                   /\ NoDuplicates(out.analysis.files_processed)
                   /\ Range(out.analysis.files_processed)
                          = NormalizedPaths({EnginePathOf(m) : m \in ParsedMessages(lines)})
            /\ Done("sast_files") =>
                   /\ NoDuplicates(out.sast_files)
                   /\ Range(out.sast_files)
                          = NormalizedPaths({SastPathOf(lines[i]) : i \in DOMAIN lines})
    IN  task = "track" => tracked(Split(input, "\n"))

\* Both analyzers read a log whose two lines name one file under different
\* temp prefixes, once as started and once as finished: the SAST analyzer
\* lists it once, and so does the source-engine analyzer, which reads the
\* finished line alone.
C22_Witness ==
    /\ task = "track"
    /\ input = Join(<<EngineLine(S("INFO"), S("Parse"),
                                 S("Started processing file: /tmp/x/") \o Uuid1
                                     \o S("/src/a.py")),
                      EngineLine(S("INFO"), S("Parse"),
                                 S("Finished processing file: C:\\t\\") \o Uuid1
                                     \o S("\\src\\a.py"))>>, S("\n"))
    /\ Done("analysis") /\ Done("sast_files")
    /\ out.analysis.files_processed = <<S("src/a.py")>>
    /\ out.sast_files = <<S("src/a.py")>>

(***************************************************************************)
(* Jobs: the job records that the DAST analyzer makes of one log.          *)
(***************************************************************************)

MaxJobLines == 3

JobLines ==
    {S("Job spider started"),
     S("Job spider finished, time taken: 00:00:05"),
     S("Job openapi started"),
     S("Job openapi finished, time taken: 00:00:01"),
     S("Job openapi added 3 URLs")}

InitJobs ==
    /\ task = "jobs"
    /\ input \in SeqsUpTo(JobLines, MaxJobLines)
    /\ out = EmptyDict

\* extract_jobs(lines)
ExtractJobs ==
    /\ task = "jobs"
    /\ ~Done("jobs")
    /\ out' = Put(out, "jobs", extract_jobs(input))
    /\ UNCHANGED <<task, input>>

NextJobs == ExtractJobs

SpecJobs == InitJobs /\ [][NextJobs]_vars

\* The line 'Job <name> started'.
StartLineOf(name) == S("Job ") \o name \o S(" started")

\* The line 'Job <name> finished, time taken: <duration>'.
FinishLineOf(name, duration) ==
    S("Job ") \o name \o S(" finished, time taken: ") \o duration

\* C23: every job record of extract_jobs has the name and the duration of a
\* finish line that comes after a start line of the same name, so that a
\* finish line without a start line before it makes no record.
C23_JobsPaired ==
    (task = "jobs" /\ Done("jobs")) =>
        \A r \in DOMAIN out.jobs :
            \E i, j \in DOMAIN input :
                /\ i < j
                /\ input[i] = StartLineOf(out.jobs[r].name)
                /\ input[j] = FinishLineOf(out.jobs[r].name, out.jobs[r].duration)

(***************************************************************************)
(* Phases: the phase records that the SAST analyzer makes of one log.      *)
(***************************************************************************)

MaxPhaseLines == 3

\* The timestamp that opens a line of the engine grammar: 23 characters.
PhaseLineStamp(second) == S("01/02/2025 10:00:0") \o second \o S(",001")

PhaseLines ==
    {PhaseLineStamp(S("1")) \o S(" Engine Phase (Start): Parsing"),
     PhaseLineStamp(S("2")) \o S(" Engine Phase ( End ): Parsing"),
     PhaseLineStamp(S("3")) \o S(" Engine Phase (Start): Queries"),
     PhaseLineStamp(S("4")) \o S(" Engine Phase ( End ): Queries"),
     S("Queries done")}

InitPhases ==
    /\ task = "phases"
    /\ input \in SeqsUpTo(PhaseLines, MaxPhaseLines)
    /\ out = EmptyDict

\* extract_phases(lines)
ExtractPhases ==
    /\ task = "phases"
    /\ ~Done("phases")
    /\ out' = Put(out, "phases", extract_phases(input))
    /\ UNCHANGED <<task, input>>

NextPhases == ExtractPhases

SpecPhases == InitPhases /\ [][NextPhases]_vars

\* C24: extract_phases pairs the markers into spans: every record of an end
\* marker follows the record of a start marker of the same name, and every
\* record holds the first 23 characters of a line of the log as timestamp.
C24_PhasesPaired ==
    (task = "phases" /\ Done("phases")) =>
        \A r \in DOMAIN out.phases :
            /\ \E i \in DOMAIN input : out.phases[r].timestamp = Take(input[i], 23)
            /\ out.phases[r].type = S("end") =>
                   \E q \in 1..(r - 1) :
                       /\ out.phases[q].type = S("start")
                       /\ out.phases[q].name = out.phases[r].name

(***************************************************************************)
(* Incremental flags: the scan info of one log and its normalized          *)
(* analysis.                                                               *)
(***************************************************************************)

MaxFlagLines == 2

\* Lines that report a count, the incremental state marker, and the marker
\* that routes a log to the SAST analyzer.
FlagLines ==
    {S("Incremental Scan: number of files changed: 0."),
     S("Incremental Scan: number of files changed: 5."),
     S("Scan is in Incremental Scan State"),
     ServiceMarker}

InitFlags ==
    /\ task = "flags"
    /\ input \in {Join(ls, S("\n")) : ls \in SeqsUpTo(FlagLines, MaxFlagLines)}
    /\ out = EmptyDict

\* extract_scan_info(lines) of the source-engine analyzer
ScanInfoOfLog ==
    /\ task = "flags"
    /\ ~Done("scan_info")
    /\ out' = Put(out, "scan_info", extract_scan_info(Split(input, "\n")))
    /\ UNCHANGED <<task, input>>

\* extract_sast_scan_info(lines) of the SAST analyzer
SastScanInfoOfLog ==
    /\ task = "flags"
    /\ ~Done("sast_scan_info")
    /\ out' = Put(out, "sast_scan_info", extract_sast_scan_info(Split(input, "\n")))
    /\ UNCHANGED <<task, input>>

\* analyze_and_normalize(content): the log names no file
NormalizeLog ==
    /\ task = "flags"
    /\ ~Done("norm")
    /\ out' = Put(out, "norm", analyze_and_normalize(input, <<>>, <<>>))
    /\ UNCHANGED <<task, input>>

NextFlags == ScanInfoOfLog \/ SastScanInfoOfLog \/ NormalizeLog

SpecFlags == InitFlags /\ [][NextFlags]_vars

\* C25: in the scan info of either engine extractor and in the normalized
\* analysis of the log, incremental_skipped implies is_incremental.
C25_SkippedIsIncremental ==
    task = "flags" =>
        \A k \in {"scan_info", "sast_scan_info", "norm"} :
            Done(k) => (out[k].incremental_skipped => out[k].is_incremental)

\* C26: in a normalized analysis queries_count is the number of keys of the
\* queries map, files_count the size of the files set and errors_count the
\* length of the errors list, also when several query records of the
\* analysis compose to the same key.
C26_CountsAgree ==
    (task = "normalize" /\ Done("normalized")) =>
        /\ out.normalized.queries_count = Cardinality(DOMAIN out.normalized.queries)
        /\ out.normalized.files_count = Cardinality(Range(out.normalized.files))
        /\ out.normalized.errors_count = Len(out.normalized.errors)

\* The number of positions of a list that hold the path.
TimesIn(list, path) == Cardinality({i \in DOMAIN list : list[i] = path})

\* C27 as stated: every path of the first side is once under only_in_1 or
\* once under in_both, never both; every path of the second side is under
\* only_in_2 or shares its last segment with an entry of in_both; and
\* only_in_1 and in_both together are as many as the files of the first
\* side.
C27_EveryFileAccounted ==
    LET accounted(fd) ==
            /\ \A p \in Range(input.a.files) :
                   TimesIn(fd.only_in_1, p) + TimesIn(fd.in_both, p) = 1
            /\ \A p \in Range(input.b.files) :
                   \/ p \in Range(fd.only_in_2)
                   \/ LastSegment(p) \in SegmentsOf(fd.in_both)
            /\ Len(fd.only_in_1) + Len(fd.in_both) = input.a.files_count
    IN  (task = "compare" /\ Done("comparison")) => accounted(out.comparison.files_diff)

\* C27 amended: the file diff accounts for every last segment: each last
\* segment of the first side is that of exactly one entry of only_in_1 and
\* in_both together, each last segment of the second side is that of exactly
\* one entry of only_in_2 and in_both together, and every entry is a path of
\* its side; so only_in_1 and in_both together are as many as the last
\* segments of the first side, which is its files_count when no two of its
\* paths share a last segment.
C27_EveryBasenameAccounted ==
    LET once(listed, segments) ==
            /\ Len(listed) = Cardinality(segments)
            /\ SegmentsOf(listed) = segments
        accounted(fd, A, B) ==
            /\ once(fd.only_in_1 \o fd.in_both, A)
            /\ once(fd.only_in_2 \o fd.in_both, B)
            /\ Range(fd.only_in_1) \cup Range(fd.in_both) \subseteq Range(input.a.files)
            /\ Range(fd.only_in_2) \subseteq Range(input.b.files)
            /\ Cardinality(A) = Len(input.a.files)
                   => Len(fd.only_in_1) + Len(fd.in_both) = input.a.files_count
    IN  (task = "compare" /\ Done("comparison")) =>
            accounted(out.comparison.files_diff,
                      SegmentsOf(input.a.files), SegmentsOf(input.b.files))

\* C27 witness: a side of two paths of one name has been compared with a
\* side that holds another name: one entry stands for the two paths.
C27_Witness ==
    /\ task = "compare"
    /\ input.a.files = <<S("src/a.js"), S("lib/a.js")>>
    /\ input.b.files = <<S("b.js")>>
    /\ input.a.files_count = 2
    /\ Done("comparison")
    /\ out.comparison.files_diff.only_in_1 = <<S("lib/a.js")>>
    /\ out.comparison.files_diff.in_both = <<>>
    /\ out.comparison.files_diff.only_in_2 = <<S("b.js")>>

\* C28: the query diff partitions the keys: only_in_1, only_in_2 and the
\* keys of both sides are pairwise disjoint; only_in_1 and in_both together
\* are as many as the keys of the first side, only_in_2 and in_both together
\* as many as the keys of the second; and every name of results_changed is a
\* key of both sides, results_changed being no longer than in_both.
C28_QueryKeysPartitioned ==
    LET partitioned(qd, keys1, keys2) ==
            /\ Range(qd.only_in_1) \cap Range(qd.only_in_2) = {}
            /\ Range(qd.only_in_1) \cap (keys1 \cap keys2) = {}
            /\ Range(qd.only_in_2) \cap (keys1 \cap keys2) = {}
            /\ Len(qd.only_in_1) + qd.in_both = Cardinality(keys1)
            /\ Len(qd.only_in_2) + qd.in_both = Cardinality(keys2)
            /\ \A i \in DOMAIN qd.results_changed :
                   qd.results_changed[i].name \in keys1 \cap keys2
            /\ Len(qd.results_changed) <= qd.in_both
    IN  (task = "compare" /\ Done("comparison")) =>
            partitioned(out.comparison.queries_diff,
                        DOMAIN input.a.queries, DOMAIN input.b.queries)

\* C28 witness: a side of two queries has been compared with a side that
\* holds one of them with other results: one key on the first side alone,
\* one key on both, and its results changed.
C28_Witness ==
    /\ task = "compare"
    /\ DOMAIN input.a.queries = {S("Java.Q1"), S("Python.SqlInjection")}
    /\ DOMAIN input.b.queries = {S("Python.SqlInjection")}
    /\ Done("comparison")
    /\ out.comparison.queries_diff.only_in_1 = <<S("Java.Q1")>>
    /\ out.comparison.queries_diff.only_in_2 = <<>>
    /\ out.comparison.queries_diff.in_both = 1
    /\ Len(out.comparison.queries_diff.results_changed) = 1

(***************************************************************************)
(* Self comparison: one normalized analysis compared with itself.          *)
(***************************************************************************)

MaxSelfErrors == 4

\* Normalized analyses with files, queries and errors.
SelfNorms ==
    {normalize_analysis([SastAnalysis(files, queries) EXCEPT !.errors = ErrorsOf(n, long)],
                        S("cxsast"), files) :
        files \in FileLists, queries \in QueryLists,
        n \in 0..MaxSelfErrors, long \in BOOLEAN}

InitSelf ==
    /\ task = "self"
    /\ input \in SelfNorms
    /\ out = EmptyDict

\* compare_logs(a, a)
CompareWithItself ==
    /\ task = "self"
    /\ ~Done("comparison")
    /\ \E both \in ListsOf(DOMAIN input.queries) :
           out' = Put(out, "comparison", compare_logs(input, input, both))
    /\ UNCHANGED <<task, input>>

NextSelf == CompareWithItself

SpecSelf == InitSelf /\ [][NextSelf]_vars

\* C30: an analysis compared with itself shows no difference: no file and
\* no query on one side alone, no changed results, in_both as many as its
\* query keys, and the same error samples on both sides.
C30_NoSelfDifference ==
    LET same(c) ==
            /\ c.files_diff.only_in_1 = <<>>
            /\ c.files_diff.only_in_2 = <<>>
            /\ c.queries_diff.only_in_1 = <<>>
            /\ c.queries_diff.only_in_2 = <<>>
            /\ c.queries_diff.results_changed = <<>>
            /\ c.queries_diff.in_both = Cardinality(DOMAIN input.queries)
            /\ c.errors_diff.errors_1 = c.errors_diff.errors_2
    IN  (task = "self" /\ Done("comparison")) => same(out.comparison)

\* C30 witness: an analysis of two files of one name, two queries and four
\* errors, the last with a message of more than 100 characters, has been
\* compared with itself.
C30_Witness ==
    /\ task = "self"
    /\ input.files = <<S("src/a.js"), S("lib/a.js")>>
    /\ Cardinality(DOMAIN input.queries) = 2
    /\ Len(input.errors) = 4
    /\ Len(input.errors[4].message) > 100
    /\ Done("comparison")
    /\ out.comparison.queries_diff.in_both = 2
    /\ Len(out.comparison.errors_diff.errors_2) = 4
    /\ out.comparison.files_diff.in_both = <<S("lib/a.js")>>

(***************************************************************************)
(* Routing: the type detected for one log and the analyzer it is given to. *)
(***************************************************************************)

MaxRouteLines == 2

\* Lines of the engine grammar that make an error, a file and a query
\* record, and a line of a generic log that fails the grammar.
RouteLines ==
    {EngineLine(S("ERROR"), S("Queries"), S("boom")),
     EngineLine(S("INFO"), S("Parse"), S("Finished processing file: src/a.js")),
     QueryFinished(S("Q1")),
     S("CxOne platform log")}

\* The empty lines before the lines of the log: none, one less than the
\* detector samples, or as many.
RoutePads == {0, SampleLines - 1, SampleLines}

InitRoute ==
    /\ task = "route"
    /\ input \in [pad : RoutePads, lines : SeqsUpTo(RouteLines, MaxRouteLines)]
    /\ out = EmptyDict

\* analyze_and_normalize(content)
RouteAndNormalize ==
    /\ task = "route"
    /\ ~Done("normalized")
    /\ LET run(content, tracked) ==
               \E listed \in ListsOf(tracked), files \in ListsOf(tracked) :
                   out' = Put(out, "normalized",
                              analyze_and_normalize(content, listed, files))
           routed(content) == run(content, files_of(content))
       IN  routed(PaddedLog(input.pad, input.lines))
    /\ UNCHANGED <<task, input>>

NextRoute == RouteAndNormalize

SpecRoute == InitRoute /\ [][NextRoute]_vars

\* The number of lines of a log from line SampleLines + 1 on.
LinesAfterSample(total_lines) ==
    IF total_lines > SampleLines THEN total_lines - SampleLines ELSE 0

\* C29: the normalized analysis of a log detected as 'cxone' counts no
\* query, no file and no error when the log has at most 150 lines, the
\* source-engine analyzer having parsed none of them; in a longer log it
\* counts no more of each than the log has lines after line 150.
C29_GenericParsesNothing ==
    LET within(norm, after) ==
            /\ norm.queries_count <= after
            /\ norm.files_count <= after
            /\ norm.errors_count <= after
        counted(norm) ==
            norm.log_type = S("CxOne") =>
                within(norm, LinesAfterSample(Len(Split(PaddedLog(input.pad, input.lines),
                                                        "\n"))))
    IN  (task = "route" /\ Done("normalized")) => counted(out.normalized)

\* C29 witness: a log of 150 lines, the last of them a line that fails the
\* engine grammar, was detected as generic and normalized: it counts nothing.
C29_Witness ==
    /\ task = "route"
    /\ input = [pad |-> SampleLines - 1, lines |-> <<S("CxOne platform log")>>]
    /\ Done("normalized")
    /\ out.normalized.log_type = S("CxOne")
    /\ out.normalized.queries_count = 0
    /\ out.normalized.files_count = 0
    /\ out.normalized.errors_count = 0

Init == InitPath \/ InitLog \/ InitScan \/ InitDetect \/ InitNormalize \/ InitCompare \/ InitMode \/ InitSummary \/ InitErrors \/ InitInsert \/ InitThreads \/ InitShapes \/ InitFields \/ InitTotals \/ InitTrack \/ InitJobs \/ InitPhases \/ InitFlags \/ InitSelf \/ InitRoute

Next == NextPath \/ NextLog \/ NextScan \/ NextDetect \/ NextNormalize \/ NextCompare \/ NextMode \/ NextSummary \/ NextErrors \/ NextInsert \/ NextThreads \/ NextShapes \/ NextFields \/ NextTotals \/ NextTrack \/ NextJobs \/ NextPhases \/ NextFlags \/ NextSelf \/ NextRoute

Spec == Init /\ [][Next]_vars

====
